---- MODULE Spec2Model ----
(***************************************************************************)
(* A model of bftw(), the traversal engine of bfs (src/unnamed/part_003).  *)
(*                                                                         *)
(* The whole struct bftw_state is one record; every C function of the      *)
(* engine is an operator from such a record to the next one.  A function's *)
(* return value is left in the scratch field rc.  The main thread executes *)
(* the statements of bftw_impl() and bftw_state_destroy(); the ioq workers *)
(* complete submitted requests concurrently.                               *)
(***************************************************************************)
EXTENDS Integers, Sequences, FiniteSets, TLC

\* ------------------------------------------------------------------ bounds

\* The largest number of ioq threads tried (args->nthreads in 0..MaxThreads).
MaxThreads == 2
\* The largest descriptor budget tried (args->nopenfd in 2..MaxOpenFd).
MaxOpenFd == 3

\* The ioq depth chosen by bftw_state_init().
qdepth == 4096
\* The cap bftw_cache_init() puts on open directory streams.
DirLimitMax == 1024

\* ------------------------------------------------------- the directory tree

\* The files of the tree that is walked, by entry number.  name is the rank
\* of the file name under strcoll(); kind is what lstat() reports; target is
\* the entry a symbolic link points to; openable tells whether opendir()
\* succeeds.  children lists a directory's entries in readdir() order.
\*
\*     b/          (1)
\*     b/y         (4)   a regular file, returned first by readdir()
\*     b/x/        (3)   a mount point: another file system (dev 2)
\*     b/x/w -> b  (5)   a link back to the root
\*     b/z -> b    (6)   a link to the directory it is in, returned last
\*     a/          (2)   a directory that cannot be opened (EACCES)
FS ==
    << [name |-> 2,  parent |-> 0, kind |-> "dir", target |-> 0, openable |-> TRUE,
        dev |-> 1, ino |-> 1, children |-> <<4, 3, 6>>],
       [name |-> 1,  parent |-> 0, kind |-> "dir", target |-> 0, openable |-> FALSE,
        dev |-> 1, ino |-> 2, children |-> <<>>],
       [name |-> 24, parent |-> 1, kind |-> "dir", target |-> 0, openable |-> TRUE,
        dev |-> 2, ino |-> 3, children |-> <<5>>],
       [name |-> 25, parent |-> 1, kind |-> "reg", target |-> 0, openable |-> FALSE,
        dev |-> 1, ino |-> 4, children |-> <<>>],
       [name |-> 23, parent |-> 3, kind |-> "lnk", target |-> 1, openable |-> FALSE,
        dev |-> 2, ino |-> 5, children |-> <<>>],
       [name |-> 26, parent |-> 1, kind |-> "lnk", target |-> 1, openable |-> FALSE,
        dev |-> 1, ino |-> 6, children |-> <<>>] >>

Entries == DOMAIN FS

\* The file names of the entries, as the bytes the walk copies into its path
\* buffer.  The first root is given with a trailing slash.
Names == << <<"b", "/">>, <<"a">>, <<"x">>, <<"y", "y">>, <<"w">>, <<"z">> >>

\* The root paths given to bftw(), in input order.
RootPaths == <<1, 2>>

\* The entry a path resolves to when symbolic links are followed.
Resolve(e) == IF FS[e].kind = "lnk" THEN FS[e].target ELSE e

\* The entries readdir() returns for the directory that entry e resolves to.
DirEntries(e) == FS[Resolve(e)].children

Min(a, b) == IF a < b THEN a ELSE b

\* errno 0
NoError == "0"

\* A null pointer to a struct bftw_file.
NULL == 0

\* The longest path that openat() takes (PATH_MAX, without the null byte).
PathMax == 8

\* The path of entry e built from scratch: the names on its parent chain,
\* each after a slash unless the path before it ends in one.
RECURSIVE PathOf(_)
PathOf(e) ==
    IF FS[e].parent = 0 THEN Names[e]
    ELSE LET dir == PathOf(FS[e].parent)
         IN dir \o (IF dir[Len(dir)] = "/" THEN <<>> ELSE <<"/">>) \o Names[e]

\* ------------------------------------------------------------ list helpers

InSeq(seq, x) == \E i \in DOMAIN seq : seq[i] = x

IndexOf(seq, x) == CHOOSE i \in DOMAIN seq : seq[i] = x

RemoveAt(seq, i) == SubSeq(seq, 1, i - 1) \o SubSeq(seq, i + 1, Len(seq))

SeqRemove(seq, x) == IF InSeq(seq, x) THEN RemoveAt(seq, IndexOf(seq, x)) ELSE seq

SeqHead(seq) == IF seq = <<>> THEN NULL ELSE Head(seq)

\* Insert x after position i of seq (i = 0: at the head).
InsertAfter(seq, i, x) == SubSeq(seq, 1, i) \o <<x>> \o SubSeq(seq, i + 1, Len(seq))

\* A failed bfs_assert()/bfs_bug(): the first one of a walk is remembered.
Fault(s, what) == IF s.fault = "none" THEN [s EXCEPT !.fault = what] ELSE s

\* ------------------------------------------------------------- bftw_queue

\* bftw_queue_init()
QueueInit(qflags) ==
    [flags |-> qflags, buffer |-> <<>>, waiting |-> <<>>, ready |-> <<>>,
     size |-> 0, ioqueued |-> 0, imbalance |-> 0]

\* A bftw_queue_push() that counts the push in queue->imbalance.
QueuePushCounted(s, qn, f) ==
    LET q == s[qn]
        q1 == IF "QBUFFER" \in q.flags
                THEN [q EXCEPT !.buffer = Append(@, f)]
              ELSE IF "QLIFO" \in q.flags
                THEN [q EXCEPT !.waiting = <<f>> \o @,
                               !.ready = IF "QORDER" \in q.flags THEN <<f>> \o @ ELSE @]
              ELSE [q EXCEPT !.waiting = Append(@, f),
                             !.ready = IF "QORDER" \in q.flags THEN Append(@, f) ELSE @]
    IN [s EXCEPT ![qn] = [q1 EXCEPT !.size = @ + 1, !.imbalance = @ - 1]]

\* bftw_queue_push()
QueuePush(s, qn, f) ==
    LET q == s[qn]
        q1 == IF "QBUFFER" \in q.flags
                THEN [q EXCEPT !.buffer = Append(@, f)]
              ELSE IF "QLIFO" \in q.flags
                THEN [q EXCEPT !.waiting = <<f>> \o @,
                               !.ready = IF "QORDER" \in q.flags THEN <<f>> \o @ ELSE @]
              ELSE [q EXCEPT !.waiting = Append(@, f),
                             !.ready = IF "QORDER" \in q.flags THEN Append(@, f) ELSE @]
    IN [s EXCEPT ![qn] = [q1 EXCEPT !.size = @ + 1]]

\* A bftw_queue_flush() that puts the buffered files in front of the
\* waiting ones whatever the flags.
QueueFlushFront(s, qn) ==
    LET q == s[qn]
    IN IF "QBUFFER" \notin q.flags THEN s
       ELSE [s EXCEPT ![qn] = [q EXCEPT !.waiting = q.buffer \o q.waiting,
                                       !.ready = IF "QORDER" \in q.flags
                                                   THEN q.buffer \o q.ready ELSE q.ready,
                                       !.buffer = <<>>]]

\* A bftw_queue_flush() that reverses the buffer of a BFTW_QLIFO queue.
QueueFlushReversed(s, qn) ==
    LET q == s[qn]
        buf == IF "QLIFO" \in q.flags
                 THEN [i \in 1 .. Len(q.buffer) |-> q.buffer[Len(q.buffer) + 1 - i]]
                 ELSE q.buffer
        rdy == IF "QORDER" \in q.flags
                 THEN IF "QLIFO" \in q.flags THEN buf \o q.ready ELSE q.ready \o buf
                 ELSE q.ready
        wtg == IF "QLIFO" \in q.flags THEN buf \o q.waiting ELSE q.waiting \o buf
    IN IF "QBUFFER" \notin q.flags THEN s
       ELSE [s EXCEPT ![qn] = [q EXCEPT !.ready = rdy, !.waiting = wtg, !.buffer = <<>>]]

\* bftw_queue_flush()
QueueFlush(s, qn) ==
    LET q == s[qn]
        rdy == IF "QORDER" \in q.flags
                 THEN IF "QLIFO" \in q.flags THEN q.buffer \o q.ready
                                             ELSE q.ready \o q.buffer
                 ELSE q.ready
        wtg == IF "QLIFO" \in q.flags THEN q.buffer \o q.waiting
                                      ELSE q.waiting \o q.buffer
    IN IF "QBUFFER" \notin q.flags THEN s
       ELSE [s EXCEPT ![qn] = [q EXCEPT !.ready = rdy, !.waiting = wtg, !.buffer = <<>>]]

\* A bftw_queue_balanced() that always allows work for the ioq.
QueueBalancedAlways(q) == TRUE

\* bftw_queue_balanced()
QueueBalanced(q) == IF "QBALANCE" \in q.flags THEN q.imbalance >= 0 ELSE TRUE

\* bftw_queue_rebalance()
QueueRebalance(s, qn, async) ==
    [s EXCEPT ![qn].imbalance = IF async THEN @ - 1 ELSE @ + 1]

\* bftw_queue_detach()
QueueDetach(s, qn, f, async) ==
    LET q == s[qn]
        s0 == IF s.files[f].ioqueued THEN Fault(s, "detach: ioqueued") ELSE s
        s1 == IF f = SeqHead(q.buffer)
                THEN LET sa == IF "QORDER" \in q.flags
                                 THEN Fault(s0, "detach: buffered in an ordered queue")
                                 ELSE s0
                     IN [sa EXCEPT ![qn].buffer = Tail(@)]
              ELSE IF f = SeqHead(q.waiting)
                THEN [s0 EXCEPT ![qn].waiting = Tail(@)]
              ELSE Fault(s0, "detach: not buffered or waiting")
    IN IF async
         THEN QueueRebalance([s1 EXCEPT !.files[f].ioqueued = TRUE,
                                        ![qn].ioqueued = @ + 1], qn, TRUE)
         ELSE s1

\* A bftw_queue_attach() that leaves queue->ioqueued as it is.
QueueAttachUncounted(s, qn, f, async) ==
    LET s1 == IF async THEN [s EXCEPT !.files[f].ioqueued = FALSE] ELSE s
    IN IF "QORDER" \notin s[qn].flags
         THEN [s1 EXCEPT ![qn].ready = Append(@, f)]
         ELSE s1

\* bftw_queue_attach()
QueueAttach(s, qn, f, async) ==
    LET s1 == IF async
                THEN LET sa == IF ~s.files[f].ioqueued
                                 THEN Fault(s, "attach: not ioqueued") ELSE s
                     IN [sa EXCEPT !.files[f].ioqueued = FALSE, ![qn].ioqueued = @ - 1]
              ELSE IF s.files[f].ioqueued THEN Fault(s, "attach: ioqueued") ELSE s
    IN IF "QORDER" \notin s[qn].flags
         THEN [s1 EXCEPT ![qn].ready = Append(@, f)]
         ELSE s1

\* bftw_queue_skip()
QueueSkip(s, qn, f) == QueueAttach(QueueDetach(s, qn, f, FALSE), qn, f, FALSE)

\* bftw_queue_waiting()
QueueWaiting(q) ==
    IF "QBUFFER" \notin q.flags THEN SeqHead(q.waiting)
    ELSE IF "QORDER" \in q.flags THEN SeqHead(q.waiting)
    ELSE LET prefix == IF "QLIFO" \in q.flags THEN q.buffer ELSE q.waiting
             suffix == IF "QLIFO" \in q.flags THEN q.waiting ELSE q.buffer
         IN IF prefix # <<>> THEN Head(prefix) ELSE SeqHead(suffix)

\* bftw_queue_ready()
QueueReady(q) == SeqHead(q.ready)

\* A bftw_queue_pop() that prefers the head of the waiting list.
QueuePopWaiting(s, qn) ==
    LET q == s[qn]
        f2 == IF q.waiting # <<>> THEN Head(q.waiting) ELSE SeqHead(q.ready)
    IN [s EXCEPT ![qn] = [q EXCEPT !.ready = SeqRemove(@, f2), !.waiting = SeqRemove(@, f2),
                                   !.size = IF f2 # NULL THEN @ - 1 ELSE @],
                 !.rc = f2]

\* bftw_queue_pop(): the popped file (or NULL) is left in rc.
QueuePop(s, qn) ==
    LET q == s[qn]
        s0 == IF q.buffer # <<>> THEN Fault(s, "pop: buffer not empty") ELSE s
        f1 == SeqHead(q.ready)
        rdy == IF q.ready = <<>> THEN <<>> ELSE Tail(q.ready)
        both == f1 = NULL \/ f1 = SeqHead(q.waiting)
        f2 == IF both THEN SeqHead(q.waiting) ELSE f1
        wtg == IF both /\ q.waiting # <<>> THEN Tail(q.waiting) ELSE q.waiting
    IN [s0 EXCEPT ![qn] = [q EXCEPT !.ready = rdy, !.waiting = wtg,
                                    !.size = IF f2 # NULL THEN @ - 1 ELSE @],
                  !.rc = f2]

\* ------------------------------------------------------------- bftw_cache

\* bftw_cache_init()
CacheInit(capacity) ==
    [lru |-> <<>>, target |-> NULL, capacity |-> capacity,
     dir_limit |-> IF capacity > DirLimitMax THEN DirLimitMax ELSE capacity - 1]

\* bftw_allocdir(): rc = 0 when a struct bfs_dir was allocated, -1 otherwise.
AllocDir(s, force) ==
    IF ~force /\ s.cache.dir_limit <= 0
      THEN [s EXCEPT !.rc = -1]
      ELSE [s EXCEPT !.cache.dir_limit = @ - 1, !.rc = 0]

\* bftw_freedir()
FreeDir(s) == [s EXCEPT !.cache.dir_limit = @ + 1]

\* bftw_lru_remove()
LruRemove(s, f) ==
    LET lru == s.cache.lru
        i == IndexOf(lru, f)
    IN IF ~InSeq(lru, f) THEN Fault(s, "lru_remove: not on the list")
       ELSE [s EXCEPT !.cache.target = IF @ = f THEN (IF i = 1 THEN NULL ELSE lru[i - 1])
                                                ELSE @,
                      !.cache.lru = RemoveAt(lru, i)]

\* bftw_cache_remove()
CacheRemove(s, f) == [LruRemove(s, f) EXCEPT !.cache.capacity = @ + 1]

\* bftw_file_close()
FileClose(s, f) ==
    LET s0 == IF ~s.files[f].fd THEN Fault(s, "file_close: fd < 0")
              ELSE IF s.files[f].pincount # 0 THEN Fault(s, "file_close: pinned")
              ELSE s
        s1 == IF s0.files[f].dir
                THEN [FreeDir(s0) EXCEPT !.files[f].dir = FALSE]
                ELSE s0
    IN CacheRemove([s1 EXCEPT !.files[f].fd = FALSE], f)

\* bftw_cache_pop(): rc = 0 when the least recently used file was closed.
CachePop(s) ==
    IF s.cache.lru = <<>>
      THEN [s EXCEPT !.rc = -1]
      ELSE [FileClose(s, s.cache.lru[Len(s.cache.lru)]) EXCEPT !.rc = 0]

\* A bftw_lru_add() that inserts at the head whatever cache->target is.
LruAddHead(s, f) ==
    [s EXCEPT !.cache.lru = <<f>> \o SeqRemove(@, f),
              !.cache.target = IF s.files[f].depth = 0 THEN f ELSE @]

\* bftw_lru_add()
LruAdd(s, f) ==
    LET lru == s.cache.lru
        s0 == IF ~s.files[f].fd THEN Fault(s, "lru_add: fd < 0")
              ELSE IF InSeq(lru, f) THEN Fault(s, "lru_add: already on the list")
              ELSE s
        at == IF s.cache.target = NULL THEN 0 ELSE IndexOf(lru, s.cache.target)
    IN [s0 EXCEPT !.cache.lru = InsertAfter(SeqRemove(lru, f), at, f),
                  !.cache.target = IF s.files[f].depth = 0 THEN f ELSE @]

\* bftw_cache_add(): rc = 0, or -1 with the file closed again (EMFILE).
CacheAdd(s, f) ==
    LET Add(s1) ==
            LET s2 == IF s1.cache.capacity <= 0
                        THEN Fault(s1, "cache_add: no capacity") ELSE s1
            IN [LruAdd([s2 EXCEPT !.cache.capacity = @ - 1], f) EXCEPT !.rc = 0]
        Evicted(popped) ==
            IF popped.rc # 0
              THEN [FileClose(popped, f) EXCEPT !.rc = -1, !.errno = "EMFILE"]
              ELSE Add(popped)
    IN IF s.cache.capacity = 0 THEN Evicted(CachePop(s)) ELSE Add(s)

\* bftw_cache_pin() that leaves the file on the LRU list.
CachePinListed(s, f) ==
    LET s0 == IF ~s.files[f].fd THEN Fault(s, "pin: fd < 0") ELSE s
    IN [s0 EXCEPT !.files[f].pincount = @ + 1]

\* bftw_cache_pin()
CachePin(s, f) ==
    LET s0 == IF ~s.files[f].fd THEN Fault(s, "pin: fd < 0") ELSE s
        s1 == [s0 EXCEPT !.files[f].pincount = @ + 1]
    IN IF s.files[f].pincount = 0 THEN LruRemove(s1, f) ELSE s1

\* A bftw_cache_unpin() that forgets to put the file back on the list.
CacheUnpinUnlisted(s, f) == [s EXCEPT !.files[f].pincount = @ - 1]

\* bftw_cache_unpin()
CacheUnpin(s, f) ==
    LET s0 == IF ~s.files[f].fd THEN Fault(s, "unpin: fd < 0")
              ELSE IF s.files[f].pincount <= 0 THEN Fault(s, "unpin: not pinned")
              ELSE s
        s1 == [s0 EXCEPT !.files[f].pincount = @ - 1]
    IN IF s1.files[f].pincount = 0 THEN LruAdd(s1, f) ELSE s1

\* --------------------------------------------------------------- bftw_file

\* The slot of a file that was never allocated, or was freed.
NoFile ==
    [live |-> FALSE, parent |-> NULL, depth |-> 0, refcount |-> 0, pincount |-> 0,
     fd |-> FALSE, ioqueued |-> FALSE, dir |-> FALSE, type |-> "unknown",
     dev |-> -1, ino |-> -1, stat |-> "none", nameoff |-> 0, namelen |-> 0]

\* bftw_child_nameoff(): where the name of a child of parent starts in the path.
ChildNameoff(s, parent) ==
    LET ret == s.files[parent].nameoff + s.files[parent].namelen
    IN IF Names[parent][s.files[parent].namelen] # "/" THEN ret + 1 ELSE ret

\* A bftw_file_new() that takes no reference to the parent.
FileNewOrphan(s, parent, e) ==
    [s EXCEPT !.files[e] = [NoFile EXCEPT !.live = TRUE, !.parent = parent, !.refcount = 1,
                                          !.namelen = Len(Names[e]),
                                          !.nameoff = IF parent # NULL
                                                        THEN ChildNameoff(s, parent) ELSE 0,
                                          !.depth = IF parent # NULL
                                                      THEN s.files[parent].depth + 1 ELSE 0]]

\* bftw_file_new(): the record of entry e, found in directory parent.
FileNew(s, parent, e) ==
    LET s0 == IF s.files[e].live THEN Fault(s, "file_new: allocated twice") ELSE s
        file == [NoFile EXCEPT !.live = TRUE, !.parent = parent, !.refcount = 1,
                               !.namelen = Len(Names[e]),
                               !.nameoff = IF parent # NULL THEN ChildNameoff(s, parent)
                                                            ELSE 0,
                               !.depth = IF parent # NULL THEN s.files[parent].depth + 1
                                                          ELSE 0]
        s1 == [s0 EXCEPT !.files[e] = file]
    IN IF parent # NULL THEN [s1 EXCEPT !.files[parent].refcount = @ + 1] ELSE s1

\* bftw_file_set_dir()
FileSetDir(s, f) ==
    LET s0 == IF s.files[f].dir THEN Fault(s, "set_dir: has a dir") ELSE s
        s1 == [s0 EXCEPT !.files[f].dir = TRUE]
    IN IF s.files[f].fd THEN s1
       ELSE CacheAdd([s1 EXCEPT !.files[f].fd = TRUE], f)

\* bftw_stat_recycle()
StatRecycle(s, f) == [s EXCEPT !.files[f].stat = "none"]

\* bftw_file_free()
FileFree(s, f) ==
    LET s0 == IF s.files[f].refcount # 0 THEN Fault(s, "file_free: refcount") ELSE s
        s1 == IF s0.files[f].fd THEN FileClose(s0, f) ELSE s0
    IN [s1 EXCEPT !.files[f] = NoFile]

\* -------------------------------------------------------------------- ioq

\* What a worker thread finds when it executes a request: opendir() succeeds
\* on a directory that can be opened, stat() and close() always do.
Execute(req) ==
    IF req.op = "opendir"
      THEN IF FS[Resolve(req.file)].kind = "dir" /\ FS[Resolve(req.file)].openable
             THEN "ok" ELSE "EACCES"
      ELSE "ok"

\* ioq_capacity()
IoqCapacity(s) == qdepth - (Len(s.ioq.pending) + Len(s.ioq.done))

\* A request handed to the ioq: ioq_opendir(), ioq_stat(), ioq_close(),
\* ioq_closedir().
IoqSubmit(s, op, f) ==
    [s EXCEPT !.ioq.pending = Append(@, [op |-> op, file |-> f, result |-> "pending"])]

\* ioq_cancel(): requests not yet executed complete with an error, except
\* close() and closedir(), which are always executed.
IoqCancel(s) ==
    LET cancelled(req) == [req EXCEPT !.result = IF req.op \in {"close", "closedir"}
                                                  THEN "ok" ELSE "EINTR"]
    IN [s EXCEPT !.ioq.done = @ \o [i \in DOMAIN s.ioq.pending |->
                                        cancelled(s.ioq.pending[i])],
                 !.ioq.pending = <<>>]

\* The requests the worker threads are executing: the oldest nthreads ones.
InService(s) == 1 .. Min(s.nthreads, Len(s.ioq.pending))

\* A worker thread finishes the i-th pending request.
IoqFinish(s, i) ==
    LET req == s.ioq.pending[i]
    IN [s EXCEPT !.ioq.pending = RemoveAt(@, i),
                 !.ioq.done = Append(@, [req EXCEPT !.result = Execute(req)])]

\* bftw_delayed_unwrap()
DelayedUnwrap(s, f) ==
    LET s0 == IF ~s.files[f].dir THEN Fault(s, "delayed_unwrap: no dir") ELSE s
    IN IF InSeq(s.to_close, f) THEN s0 ELSE [s0 EXCEPT !.to_close = Append(@, f)]

\* A bftw_unpin_parent() that leaves the parent pinned.
UnpinParentNever(s, f, unwrap) == s

\* bftw_unpin_parent()
UnpinParent(s, f, unwrap) ==
    LET parent == s.files[f].parent
        Unpinned(s1) ==
            IF unwrap /\ s1.files[parent].dir /\ s1.files[parent].pincount = 0
              THEN DelayedUnwrap(s1, parent)
              ELSE s1
    IN IF parent = NULL THEN s ELSE Unpinned(CacheUnpin(s, parent))

\* bftw_ioq_pop(): the switch on the operation of the response ent, after
\* its file's parent was unpinned (s2).
IoqRespond(s2, ent) ==
    LET file == ent.file
        s3 == [s2 EXCEPT !.cache.capacity = @ + 1]
    IN CASE ent.op = "close" -> s3
         [] ent.op = "closedir" -> FreeDir(s3)
         [] ent.op = "opendir" ->
              QueueAttach(IF ent.result = "ok" THEN FileSetDir(s3, file) ELSE FreeDir(s3),
                          "dirq", file, TRUE)
         [] ent.op = "stat" ->
              QueueAttach([s2 EXCEPT !.files[file].stat =
                               IF ent.result = "ok" THEN "ok" ELSE ent.result],
                          "fileq", file, TRUE)

\* bftw_ioq_pop(), after ioq_pop() has waited (s0) for a response.
IoqPopped(s, s0) ==
    LET ent == Head(s0.ioq.done)
        s1 == [s0 EXCEPT !.ioq.done = Tail(@)]
    IN IF s0.ioq.done = <<>> THEN [s EXCEPT !.rc = -1]
       ELSE [IoqRespond(IF ent.file # NULL THEN UnpinParent(s1, ent.file, TRUE) ELSE s1, ent)
               EXCEPT !.rc = 1]

\* bftw_ioq_pop(): rc = 1 when a response was popped, -1 when there was none.
\* With block set and nothing finished yet, the main thread waits for the
\* request that the workers finish first (the choice s.race).
IoqPop(s, block) ==
    LET wait == s.ioq.done = <<>> /\ block /\ s.ioq.pending # <<>>
    IN IF ~s.ioq.open THEN [s EXCEPT !.rc = -1]
       ELSE IoqPopped(s, IF wait THEN IoqFinish(s, Min(s.race, Len(s.ioq.pending))) ELSE s)

\* bftw_ioq_reserve(): rc = 0 when the ioq can take another request.
IoqReserve(s) ==
    LET Popped(p) == [p EXCEPT !.rc = IF p.rc < 0 THEN -1 ELSE 0]
    IN IF ~s.ioq.open THEN [s EXCEPT !.rc = -1]
       ELSE IF IoqCapacity(s) > 0 THEN [s EXCEPT !.rc = 0]
       ELSE Popped(IoqPop(s, s.nthreads > 1))

\* A bftw_cache_reserve() that evicts nothing.
CacheReserveNothing(s) == [s EXCEPT !.rc = 0]

\* The loop of bftw_cache_reserve(): pop responses until one frees a slot.
RECURSIVE CacheReserveLoop(_)
CacheReserveLoop(s) ==
    LET Evicted(c) == IF c.rc # 0 THEN [c EXCEPT !.rc = -1, !.errno = "EMFILE"]
                                  ELSE [c EXCEPT !.rc = 0]
        Popped(p) ==
            IF p.rc >= 0
              THEN IF p.cache.capacity > 0 THEN [p EXCEPT !.rc = 0]
                                           ELSE CacheReserveLoop(p)
              ELSE Evicted(CachePop(p))
    IN Popped(IoqPop(s, TRUE))

\* A bftw_cache_reserve() that evicts without popping the ioq first.
CacheReserveEvicts(s) ==
    LET Evicted(c) == IF c.rc # 0 THEN [c EXCEPT !.rc = -1, !.errno = "EMFILE"]
                                  ELSE [c EXCEPT !.rc = 0]
    IN IF s.cache.capacity > 0 THEN [s EXCEPT !.rc = 0] ELSE Evicted(CachePop(s))

\* bftw_cache_reserve(): rc = 0 when the cache has room for one descriptor.
CacheReserve(s) ==
    IF s.cache.capacity > 0 THEN [s EXCEPT !.rc = 0] ELSE CacheReserveLoop(s)

\* ------------------------------------------------- opening and closing

\* openat(at_fd, at_path, O_RDONLY | O_CLOEXEC | O_DIRECTORY) on entry e,
\* with an at_path of len bytes.
OpenAt(s, e, len) ==
    IF len > s.path_max THEN "ENAMETOOLONG"
    ELSE IF FS[Resolve(e)].kind = "dir" /\ FS[Resolve(e)].openable THEN "ok"
    ELSE "EACCES"

\* bftw_file_openat(), with an at_path of len bytes: rc = 1 when the file got
\* a descriptor, else -1 and errno.
FileOpenAt(s, f, base, len) ==
    LET s0 == IF s.files[f].fd THEN Fault(s, "file_openat: fd >= 0") ELSE s
        Unpinned(s4, opened) ==
            IF opened
              THEN [CacheAdd([s4 EXCEPT !.files[f].fd = TRUE], f) EXCEPT !.rc = 1]
              ELSE [s4 EXCEPT !.rc = -1]
        Opened(s3, opened) ==
            Unpinned(IF base # NULL THEN CacheUnpin(s3, base) ELSE s3, opened)
        Reserved(s2, result) ==
            Opened(IF s2.rc = 0 /\ result # "ok" THEN [s2 EXCEPT !.errno = result] ELSE s2,
                   s2.rc = 0 /\ result = "ok")
    IN Reserved(CacheReserve(IF base # NULL THEN CachePin(s0, base) ELSE s0),
                OpenAt(s, f, len))

\* The nearest ancestor of f with an open descriptor, or NULL.
RECURSIVE OpenAncestor(_, _)
OpenAncestor(s, f) ==
    LET parent == s.files[f].parent
    IN IF parent = NULL THEN NULL
       ELSE IF s.files[parent].fd THEN parent
       ELSE OpenAncestor(s, parent)

\* The length of the path of f after the name offset of a child of base.
AtPathLen(s, f, base) ==
    s.files[f].nameoff + s.files[f].namelen
      - (IF base # NULL THEN ChildNameoff(s, base) ELSE 0)

\* The files from cur up to base, base left out, the nearest to the root first.
RECURSIVE Parents(_, _, _)
Parents(s, cur, base) ==
    IF cur = base THEN <<>> ELSE Append(Parents(s, s.files[cur].parent, base), cur)

\* Each file of the list is opened by its name, relative to its parent,
\* when it is a root or its parent is open.
RECURSIVE OpenParents(_, _)
OpenParents(s, parents) ==
    IF parents = <<>> THEN s
    ELSE LET cur == Head(parents)
             parent == s.files[cur].parent
         IN OpenParents(IF parent = NULL \/ s.files[parent].fd
                          THEN FileOpenAt(s, cur, parent, s.files[cur].namelen)
                          ELSE s,
                        Tail(parents))

\* A bftw_file_open() that returns the failure of the first openat().
FileOpenOnce(s, f) ==
    FileOpenAt(s, f, OpenAncestor(s, f), AtPathLen(s, f, OpenAncestor(s, f)))

\* bftw_file_open(): rc = 1 when the file got a descriptor, else -1.
FileOpen(s, f) ==
    LET Walked(w) == [w EXCEPT !.rc = IF w.files[f].fd THEN 1 ELSE -1]
        Opened(o, base) ==
            IF o.rc >= 0 \/ o.errno # "ENAMETOOLONG" THEN o
            ELSE Walked(OpenParents(o, Parents(o, f, base)))
    IN Opened(FileOpenAt(s, f, OpenAncestor(s, f), AtPathLen(s, f, OpenAncestor(s, f))),
              OpenAncestor(s, f))

\* bftw_ioq_closedir()
IoqClosedir(s) ==
    LET Reserved(r) ==
            IF r.rc = 0 THEN [IoqSubmit(r, "closedir", NULL) EXCEPT !.rc = 0]
            ELSE [FreeDir(r) EXCEPT !.cache.capacity = @ + 1, !.rc = 0]
    IN Reserved(IoqReserve(s))

\* bftw_ioq_close()
IoqClose(s) ==
    LET Reserved(r) ==
            IF r.rc = 0 THEN [IoqSubmit(r, "close", NULL) EXCEPT !.rc = 0]
            ELSE [r EXCEPT !.cache.capacity = @ + 1, !.rc = 0]
    IN Reserved(IoqReserve(s))

\* bftw_close()
Close(s, f) ==
    LET s0 == IF ~s.files[f].fd THEN Fault(s, "close: fd < 0")
              ELSE IF s.files[f].pincount # 0 THEN Fault(s, "close: pinned")
              ELSE s
        Removed(s1) == IF s.files[f].dir THEN IoqClosedir(s1) ELSE IoqClose(s1)
    IN Removed([LruRemove(s0, f) EXCEPT !.files[f].dir = FALSE, !.files[f].fd = FALSE])

\* bftw_unwrapdir().  s.use_unwrapdir is BFS_USE_UNWRAPDIR, a property of
\* the build.
UnwrapDir(s, f) ==
    LET reffed == s.files[f].refcount > 1
        pinned == s.files[f].pincount > 0
        Unpinned(u, rc) ==
            IF rc # 0 THEN [u EXCEPT !.rc = rc]
            ELSE IoqClosedir([u EXCEPT !.cache.capacity = @ - 1, !.files[f].dir = FALSE])
        Reserved(r) == Unpinned(CacheUnpin(r, f), r.rc)
    IN IF ~s.files[f].dir THEN [s EXCEPT !.rc = 0]
       ELSE IF s.use_unwrapdir /\ (reffed \/ pinned)
         THEN [FreeDir(s) EXCEPT !.files[f].dir = FALSE, !.rc = 0]
       ELSE IF ~s.use_unwrapdir /\ pinned THEN [s EXCEPT !.rc = -1]
       ELSE IF ~reffed THEN Close(s, f)
       ELSE Reserved(CacheReserve(CachePin(s, f)))

\* bftw_pin_parent(): rc = 0 for AT_FDCWD, 1 for the pinned parent's
\* descriptor, -1 when the parent is not open.
PinParent(s, f) ==
    LET parent == s.files[f].parent
    IN IF parent = NULL THEN [s EXCEPT !.rc = 0]
       ELSE IF ~s.files[parent].fd THEN [s EXCEPT !.rc = -1]
       ELSE [CachePin(s, parent) EXCEPT !.rc = 1]

\* bftw_ioq_opendir(): rc = 0 when the request was submitted.
IoqOpendir(s, f) ==
    LET Allocated(a) ==
            IF a.rc # 0 THEN [UnpinParent(a, f, FALSE) EXCEPT !.rc = -1]
            ELSE [IoqSubmit(a, "opendir", f) EXCEPT !.cache.capacity = @ - 1, !.rc = 0]
        CacheReserved(c) ==
            IF c.rc # 0 THEN [UnpinParent(c, f, FALSE) EXCEPT !.rc = -1]
            ELSE Allocated(AllocDir(c, FALSE))
        Pinned(p) ==
            IF p.rc < 0 THEN [p EXCEPT !.rc = -1] ELSE CacheReserved(CacheReserve(p))
        Reserved(r) ==
            IF r.rc # 0 THEN [r EXCEPT !.rc = -1] ELSE Pinned(PinParent(r, f))
    IN Reserved(IoqReserve(s))

\* bftw_ioq_opendirs()
RECURSIVE IoqOpendirs(_)
IoqOpendirs(s) ==
    LET dir == QueueWaiting(s.dirq)
        Submitted(o) ==
            IF o.rc = 0 THEN IoqOpendirs(QueueDetach(o, "dirq", dir, TRUE)) ELSE o
    IN IF ~QueueBalanced(s.dirq) \/ dir = NULL THEN s
       ELSE Submitted(IoqOpendir(s, dir))

\* bftw_push_dir()
PushDir(s, f) ==
    LET s0 == IF s.files[f].type # "dir" THEN Fault(s, "push_dir: not a directory") ELSE s
    IN IoqOpendirs(QueuePush(s0, "dirq", f))

\* The first loop of bftw_pop(): wait for a file to become ready.
RECURSIVE PopWait(_, _)
PopWait(s, qn) ==
    LET block == ~(QueueWaiting(s[qn]) # NULL /\ s.nthreads = 1)
        Popped(p) == IF p.rc < 0 THEN p ELSE PopWait(p, qn)
    IN IF QueueReady(s[qn]) = NULL /\ s[qn].ioqueued > 0
         THEN Popped(IoqPop(s, block))
         ELSE s

\* A bftw_pop() without its second loop.
PopOwnHasty(s, f) == s

\* A second loop of bftw_pop() that gets no response from the ioq.
PopOwnStuck(s, f) ==
    IF ~s.files[f].ioqueued THEN s ELSE Fault(s, "pop: waits forever")

\* The second loop of bftw_pop(): wait for the popped file's own request.
\* The loop has no exit when the ioq has nothing left to pop.
RECURSIVE PopOwn(_, _)
PopOwn(s, f) ==
    LET Popped(p) == IF p.rc < 0 THEN Fault(p, "pop: waits forever") ELSE PopOwn(p, f)
    IN IF ~s.files[f].ioqueued THEN s ELSE Popped(IoqPop(s, TRUE))

\* bftw_pop(): rc = 1 when a file was popped and made the current file.
Pop(s, qn) ==
    LET Popped(q) ==
            IF q.rc = NULL THEN [q EXCEPT !.rc = 0]
            ELSE [PopOwn(q, q.rc) EXCEPT !.file = q.rc, !.rc = 1]
    IN IF s[qn].size = 0 THEN [s EXCEPT !.rc = 0]
       ELSE Popped(QueuePop(PopWait(s, qn), qn))

\* bftw_pop_dir()
PopDir(s) ==
    LET s0 == IF s.file # NULL THEN Fault(s, "pop_dir: file") ELSE s
        files_first ==
            IF "SORT" \in s.flags
              THEN s.strategy = "BFS" /\ QueueReady(s.fileq) # NULL
              ELSE QueueReady(s.dirq) = NULL /\ QueueReady(s.fileq) # NULL
    IN IF files_first THEN [s0 EXCEPT !.rc = 0] ELSE Pop(s0, "dirq")

\* ------------------------------------------------------------------- stat

\* bftw_stat_flags()
StatFlags(s, depth) ==
    IF "FOLLOW_ALL" \in s.flags \/ (depth = 0 /\ "FOLLOW_ROOTS" \in s.flags)
      THEN "TRYFOLLOW" ELSE "NOFOLLOW"

\* bftw_must_stat(): no mount table is given, so a name is never a mount point.
MustStat(s, depth, type) ==
    IF "STAT" \in s.flags THEN TRUE
    ELSE CASE type = "unknown" -> TRUE
           [] type = "dir" ->
                s.flags \cap {"DETECT_CYCLES", "SKIP_MOUNTS", "PRUNE_MOUNTS"} # {}
           [] type = "lnk" -> StatFlags(s, depth) # "NOFOLLOW"
           [] OTHER -> FALSE

\* bfs_stat() of entry e: the file it names, or with BFS_STAT_TRYFOLLOW the
\* file a symbolic link points to.
StatOf(e, flags) == IF flags = "TRYFOLLOW" THEN FS[Resolve(e)] ELSE FS[e]

\* The d_type of the dirent for entry e: DT_UNKNOWN on a file system that
\* does not report types.
DType(s, e) == IF s.d_type THEN FS[e].kind ELSE "unknown"

\* bftw_ioq_stat(): rc = 0 when the request was submitted.
IoqStat(s, f) ==
    LET Pinned(p) ==
            IF p.rc < 0 THEN [p EXCEPT !.rc = -1]
            ELSE [IoqSubmit(p, "stat", f) EXCEPT !.rc = 0]
        Reserved(r) ==
            IF r.rc # 0 THEN [r EXCEPT !.rc = -1] ELSE Pinned(PinParent(r, f))
    IN Reserved(IoqReserve(s))

\* A bftw_should_ioq_stat() that lets the roots be served by the ioq too.
ShouldIoqStatRoots(s, f) == MustStat(s, s.files[f].depth, s.files[f].type)

\* bftw_should_ioq_stat()
ShouldIoqStat(s, f) ==
    IF s.files[f].depth = 0 THEN FALSE
    ELSE MustStat(s, s.files[f].depth, s.files[f].type)

\* bftw_stat_files()
RECURSIVE StatFiles(_)
StatFiles(s) ==
    LET file == QueueWaiting(s.fileq)
        Submitted(st) ==
            IF st.rc = 0 THEN StatFiles(QueueDetach(st, "fileq", file, TRUE)) ELSE st
    IN IF file = NULL THEN s
       ELSE IF ~ShouldIoqStat(s, file) THEN StatFiles(QueueSkip(s, "fileq", file))
       ELSE IF ~QueueBalanced(s.fileq) THEN s
       ELSE Submitted(IoqStat(s, file))

\* bftw_push_file()
PushFile(s, f) == StatFiles(QueuePush(s, "fileq", f))

\* bftw_pop_file()
PopFile(s) ==
    Pop(IF s.file # NULL THEN Fault(s, "pop_file: file") ELSE s, "fileq")

\* ------------------------------------------------------------ directories

\* dstresize(): the string cut to len bytes, or grown to len bytes whose
\* contents are indeterminate ("?").
Resize(path, len) == [i \in 1 .. len |-> IF i <= Len(path) THEN path[i] ELSE "?"]

\* memcpy(path + off, name, strlen(name))
Memcpy(path, off, name) ==
    [i \in 1 .. Len(path) |->
        IF i > off /\ i <= off + Len(name) THEN name[i - off] ELSE path[i]]

\* The nearest ancestor of a that is no deeper than depth.
RECURSIVE Shallower(_, _, _)
Shallower(s, a, depth) ==
    IF a # NULL /\ s.files[a].depth > depth
      THEN Shallower(s, s.files[a].parent, depth) ELSE a

\* The path written backwards, from file up to the common ancestor.
RECURSIVE Backwards(_, _, _, _)
Backwards(s, path, file, ancestor) ==
    IF file = NULL \/ file = ancestor THEN path
    ELSE LET f == s.files[file]
             p1 == IF f.nameoff > 0 THEN [path EXCEPT ![f.nameoff] = "/"] ELSE path
             p2 == Memcpy(p1, f.nameoff, Names[file])
         IN Backwards(s, p2, f.parent,
                      IF ancestor # NULL /\ s.files[ancestor].depth = f.depth
                        THEN s.files[ancestor].parent ELSE ancestor)

\* A bftw_build_path() that takes the component of the previous path at the
\* depth of the current file for the name of the current file.
BuildPathSameDepth(s, name) ==
    LET file == s.file
        pathlen == IF file # NULL THEN s.files[file].nameoff + s.files[file].namelen
                   ELSE 0
        ancestor == IF file = NULL THEN NULL
                    ELSE Shallower(s, s.previous, s.files[file].depth)
        path == Backwards(s, Resize(s.path, pathlen), file,
                          IF ancestor # NULL THEN file ELSE NULL)
        sep == IF pathlen > 0 /\ path[pathlen] # "/" THEN <<"/">> ELSE <<>>
    IN [s EXCEPT !.previous = file,
                 !.path = IF name # NULL THEN path \o sep \o Names[name] ELSE path]

\* bftw_build_path(): the path of the current file, and of the entry name in
\* it when one is given, written over the path of the previous file.
BuildPath(s, name) ==
    LET file == s.file
        pathlen == IF file # NULL THEN s.files[file].nameoff + s.files[file].namelen
                   ELSE 0
    IN IF file = NULL /\ s.previous # NULL THEN Fault(s, "build_path: null file")
       ELSE LET ancestor == IF file = NULL THEN NULL
                            ELSE Shallower(s, s.previous, s.files[file].depth)
                Sep(path) == IF pathlen > 0 /\ path[pathlen] # "/" THEN <<"/">> ELSE <<>>
                Named(path) == IF name # NULL THEN path \o Sep(path) \o Names[name]
                               ELSE path
            IN [s EXCEPT !.previous = file,
                         !.path = Named(Backwards(s, Resize(s.path, pathlen), file,
                                                  ancestor))]

\* bftw_file_opendir(): rc = 1 when the directory is open.
FileOpendir(s, f) ==
    LET Opened(o) ==
            IF o.rc < 0 THEN o ELSE [FileSetDir(AllocDir(o, TRUE), f) EXCEPT !.rc = 1]
    IN Opened(FileOpen(s, f))

\* bftw_opendir()
Opendir(s) ==
    LET file == s.file
        s0 == IF s.dir \/ s.de # NULL THEN Fault(s, "opendir: dir or de") ELSE s
        s1 == [s0 EXCEPT !.direrror = NoError, !.pos = 0]
        Opened(o) ==
            IF o.rc < 0 THEN [o EXCEPT !.direrror = o.errno, !.rc = 0]
            ELSE [CachePin([o EXCEPT !.dir = TRUE], file) EXCEPT !.rc = 0]
    IN IF s.files[file].dir
         THEN [CachePin([s1 EXCEPT !.dir = TRUE], file) EXCEPT !.rc = 0]
         ELSE Opened(FileOpendir(QueueRebalance(BuildPath(s1, NULL), "dirq", FALSE), file))

\* bftw_readdir(): rc = 1 with the next entry in de, 0 at the end of the
\* directory, -1 when the directory is not open.
Readdir(s) ==
    LET ents == DirEntries(s.file)
    IN IF ~s.dir THEN [s EXCEPT !.rc = -1]
       ELSE IF s.pos < Len(ents)
         THEN [s EXCEPT !.de = ents[s.pos + 1], !.pos = @ + 1, !.rc = 1]
       ELSE [s EXCEPT !.de = NULL, !.rc = 0]

\* bftw_ensure_open(): rc >= 0 when the file has a descriptor.
EnsureOpen(s, f) == IF s.files[f].fd THEN [s EXCEPT !.rc = 1] ELSE FileOpen(s, f)

\* ------------------------------------------------------------ the callback

\* The struct BFTW before bftw_init_ftwbuf() has filled it.
NoFtw ==
    [e |-> NULL, depth |-> 0, visit |-> "PRE", type |-> "unknown", error |-> NoError,
     stat |-> "none", dev |-> -1, ino |-> -1]

\* The files on the parent chain that starts at f.
RECURSIVE Chain(_, _)
Chain(s, f) == IF f = NULL THEN {} ELSE {f} \cup Chain(s, s.files[f].parent)

\* bftw_init_ftwbuf(): name is the root path or dirent name being visited,
\* or NULL for the current file.
InitFtwbuf(s, name, visit) ==
    LET file == s.file
        de == s.de
        e == IF name # NULL THEN name ELSE file
        parent == IF de # NULL THEN file
                  ELSE IF file # NULL THEN s.files[file].parent ELSE NULL
        depth == IF de # NULL THEN s.files[file].depth + 1
                 ELSE IF file # NULL THEN s.files[file].depth ELSE 0
        cached == IF de = NULL /\ file # NULL THEN s.files[file].stat ELSE "none"
        ftw == [NoFtw EXCEPT !.e = e, !.depth = depth, !.visit = visit]
        Fill(s1, error, type0, must, sb) ==
            LET type1 == IF must THEN sb.kind ELSE type0
                loop == type1 = "dir" /\ "DETECT_CYCLES" \in s.flags
                        /\ \E a \in Chain(s, parent) :
                               s.files[a].dev = sb.dev /\ s.files[a].ino = sb.ino
            IN [s1 EXCEPT !.ftw =
                  IF error # NoError THEN [ftw EXCEPT !.type = "error", !.error = error]
                  ELSE IF must /\ cached \notin {"none", "ok"}
                    THEN [ftw EXCEPT !.type = "error", !.error = cached]
                  ELSE LET f1 == IF must
                                   THEN [ftw EXCEPT !.type = type1, !.dev = sb.dev,
                                                    !.ino = sb.ino,
                                                    !.stat = IF cached = "ok" THEN "async"
                                                                             ELSE "sync"]
                                   ELSE [ftw EXCEPT !.type = type0,
                                                    !.stat = IF cached = "ok" THEN "async"
                                                                             ELSE "none",
                                                    !.dev = IF cached = "ok" THEN sb.dev ELSE -1,
                                                    !.ino = IF cached = "ok" THEN sb.ino ELSE -1]
                       IN IF loop THEN [f1 EXCEPT !.type = "error", !.error = "ELOOP"] ELSE f1]
        Typed(s1, type0) ==
            Fill(s1, IF s1.rc < 0 THEN s1.errno ELSE s.direrror, type0,
                 MustStat(s, depth, type0), StatOf(e, StatFlags(s, depth)))
    IN Typed(IF parent # NULL THEN EnsureOpen(s, parent) ELSE [s EXCEPT !.rc = 1],
             IF de # NULL THEN DType(s, de)
             ELSE IF file # NULL THEN s.files[file].type ELSE "unknown")

\* A bftw_is_mount() that finds no mount point.
IsMountNever(s, name) == [s EXCEPT !.rc = 0]

\* bftw_is_mount(): rc = 1 for a mount point.  bftw_stat() fills the stat
\* buffer on the main thread when nothing is cached.
IsMount(s, name) ==
    LET file == s.file
        parent == IF file = NULL THEN NULL
                  ELSE IF name # NULL THEN file ELSE s.files[file].parent
        Statted(sb) ==
            [(IF s.ftw.stat = "none"
                THEN [s EXCEPT !.ftw.stat = "sync", !.ftw.dev = sb.dev, !.ftw.ino = sb.ino]
                ELSE s)
               EXCEPT !.rc = IF sb.dev # s.files[parent].dev THEN 1 ELSE 0]
    IN IF parent = NULL THEN [s EXCEPT !.rc = 0]
       ELSE Statted(StatOf(s.ftw.e, StatFlags(s, s.ftw.depth)))

\* The callback of the caller of bftw() (args->callback) is called with
\* ftwbuf and returns answer: the visit and the answer are appended to the
\* log, the value returned is left in cbret.
Delegate(s, answer) ==
    [s EXCEPT !.log = Append(@, [e |-> s.ftw.e, visit |-> s.ftw.visit,
                                 type |-> s.ftw.type, error |-> s.ftw.error,
                                 depth |-> s.ftw.depth, answer |-> answer,
                                 path |-> s.path]),
              !.cbret = answer]

\* A bftw_ids_callback() that does not cut the walk at max_depth.
IdsAnsweredDeep(d) ==
    IF d.cbret = "PRUNE" /\ d.ftw.type = "dir"
      THEN [d EXCEPT !.ids.pruned = @ \cup {d.ftw.e}]
    ELSE d

\* bftw_ids_callback(), the switch on what the delegate returned (d.cbret).
\* The trie of pruned paths is the set of the entries at these paths.
IdsAnswered(d) ==
    IF d.cbret = "CONTINUE"
      THEN IF d.ftw.type = "dir" /\ d.ftw.depth + 1 >= d.ids.max_depth
             THEN [d EXCEPT !.ids.bottom = FALSE, !.cbret = "PRUNE"]
             ELSE d
    ELSE IF d.cbret = "PRUNE" /\ d.ftw.type = "dir"
      THEN [d EXCEPT !.ids.pruned = @ \cup {d.ftw.e}]
    ELSE d

\* A bftw_ids_callback() that calls the delegate for the entries above
\* min_depth too.
IdsCallbackShallow(s, answer) ==
    LET ids == s.ids
        s1 == IF ids.force_visit THEN [s EXCEPT !.ftw.visit = ids.visit] ELSE s
        ftw == s1.ftw
    IN IF ftw.type = "error"
         THEN IF ftw.depth + 1 >= ids.min_depth THEN Delegate(s1, answer)
              ELSE [s1 EXCEPT !.cbret = "PRUNE"]
       ELSE IF ids.visit = "POST" /\ ftw.e \in ids.pruned
         THEN [s1 EXCEPT !.cbret = "PRUNE"]
       ELSE IdsAnswered(IF ftw.visit = ids.visit THEN Delegate(s1, answer)
                        ELSE [s1 EXCEPT !.cbret = "CONTINUE"])

\* bftw_ids_callback() without the lookups of state->pruned.
IdsCallbackForgets(s, answer) ==
    LET ids == s.ids
        s1 == IF ids.force_visit THEN [s EXCEPT !.ftw.visit = ids.visit] ELSE s
        ftw == s1.ftw
    IN IF ftw.type = "error"
         THEN IF ftw.depth + 1 >= ids.min_depth THEN Delegate(s1, answer)
              ELSE [s1 EXCEPT !.cbret = "PRUNE"]
       ELSE IF ftw.depth < ids.min_depth
         THEN [s1 EXCEPT !.cbret = "CONTINUE"]
       ELSE IdsAnswered(IF ftw.visit = ids.visit THEN Delegate(s1, answer)
                        ELSE [s1 EXCEPT !.cbret = "CONTINUE"])

\* bftw_ids_callback(): answer is what the delegate returns if it is
\* called.
IdsCallback(s, answer) ==
    LET ids == s.ids
        s1 == IF ids.force_visit THEN [s EXCEPT !.ftw.visit = ids.visit] ELSE s
        ftw == s1.ftw
    IN IF ftw.type = "error"
         THEN IF ftw.depth + 1 >= ids.min_depth THEN Delegate(s1, answer)
              ELSE [s1 EXCEPT !.cbret = "PRUNE"]
       ELSE IF ftw.depth < ids.min_depth
         THEN [s1 EXCEPT !.cbret = IF ftw.e \in ids.pruned THEN "PRUNE" ELSE "CONTINUE"]
       ELSE IF ids.visit = "POST" /\ ftw.e \in ids.pruned
         THEN [s1 EXCEPT !.cbret = "PRUNE"]
       ELSE IdsAnswered(IF ftw.visit = ids.visit THEN Delegate(s1, answer)
                        ELSE [s1 EXCEPT !.cbret = "CONTINUE"])

\* state->callback(ftwbuf, state->ptr): bftw_ids_callback() in the nested
\* walks of bftw_ids() and bftw_eds(), the callback of the caller otherwise.
Callback(s, answer) ==
    IF s.ids.on THEN IdsCallback(s, answer) ELSE Delegate(s, answer)

\* bftw_call_back(), from the mount checks on: s is the state at the call
\* of bftw_call_back() and s1 the state with ftwbuf filled.
CallBackInvoke(s, s1, name, visit, answer) ==
    LET ftw == s1.ftw
        Balanced(s5) ==
            IF "QBALANCE" \in s.fileq.flags /\ s5.ftw.stat = "sync"
              THEN QueueRebalance(s5, "fileq", FALSE)
              ELSE s5
        Answered(s3, m2) ==
            LET descend == s3.cbret = "CONTINUE" /\ visit = "PRE" /\ ftw.type = "dir"
                prune == "PRUNE_MOUNTS" \in s.flags /\ m2.rc = 1
                ret == IF s3.cbret = "CONTINUE"
                         THEN IF descend /\ ~prune THEN "CONTINUE" ELSE "PRUNE"
                         ELSE s3.cbret
            IN IF s3.cbret \notin {"CONTINUE", "PRUNE", "STOP"}
                 THEN [s3 EXCEPT !.error = "EINVAL", !.act = "STOP"]
                 ELSE Balanced([(IF descend /\ "PRUNE_MOUNTS" \in s.flags THEN m2 ELSE s3)
                                  EXCEPT !.act = ret])
        Called(s3) == Answered(s3, IsMount(s3, name))
        Checked(m1) ==
            LET skip == "SKIP_MOUNTS" \in s.flags /\ m1.rc = 1
                s2 == IF "SKIP_MOUNTS" \in s.flags THEN m1 ELSE s1
            IN IF skip THEN Balanced([s2 EXCEPT !.act = "PRUNE"])
               ELSE Called(Callback(s2, answer))
    IN Checked(IsMount(s1, name))

\* bftw_call_back(), after bftw_init_ftwbuf() has filled ftwbuf (s1).
CallBackFilled(s, s1, name, visit, answer) ==
    IF s1.ftw.type = "error" /\ "RECOVER" \notin s.flags
      THEN [s1 EXCEPT !.error = s1.ftw.error, !.act = "STOP"]
      ELSE CallBackInvoke(s, s1, name, visit, answer)

\* A bftw_call_back() that gives errors to the callback whatever the flags.
CallBackReports(s, name, visit, answer) ==
    IF visit = "POST" /\ "POST_ORDER" \notin s.flags THEN [s EXCEPT !.act = "PRUNE"]
    ELSE CallBackInvoke(s, InitFtwbuf(BuildPath(s, name), name, visit), name, visit, answer)

\* bftw_call_back().  answer is what the callback returns if it is invoked.
\* The action returned is left in act.
CallBack(s, name, visit, answer) ==
    IF visit = "POST" /\ "POST_ORDER" \notin s.flags THEN [s EXCEPT !.act = "PRUNE"]
    ELSE CallBackFilled(s, InitFtwbuf(BuildPath(s, name), name, visit), name, visit, answer)

\* --------------------------------------------------- garbage collection

\* A bftw_gc() that makes no callback.
GcNoCallBack(s, visit) == [s EXCEPT !.act = "PRUNE"]

\* A bftw_call_back() made by bftw_gc().  The callback answers STOP on the
\* stop_at-th of the calls made in one step of the main loop.
GcCallBack(s, visit) ==
    CallBack([s EXCEPT !.ncb = @ + 1], NULL, visit,
             IF s.ncb + 1 = s.stop_at THEN "STOP" ELSE "CONTINUE")

\* The to_close loop of bftw_gc().
RECURSIVE GcUnwrap(_)
GcUnwrap(s) ==
    IF s.to_close = <<>> THEN s
    ELSE GcUnwrap(UnwrapDir([s EXCEPT !.to_close = Tail(@)], Head(s.to_close)))

\* The last loop of bftw_gc(): drop the reference to the current file, and
\* visit and free every file whose reference count reaches zero.  ret is
\* the return value so far, left in rc at the end.
RECURSIVE GcFree(_, _, _, _)

\* A bftw_gc() that leaves 'previous' on the file it frees.
GcFreeFileStale(s2, flags, visit, ret) ==
    LET file == s2.file
        parent == s2.files[file].parent
        stop == visit \in flags /\ s2.act = "STOP"
        s3 == [s2 EXCEPT !.file = parent]
    IN GcFree(FileFree(IF s3.files[file].fd THEN Close(s3, file) ELSE s3, file),
              IF stop THEN {} ELSE flags, "PARENTS", IF stop THEN -1 ELSE ret)

\* The last loop of bftw_gc(), for a file whose reference count reached
\* zero, after its POST visit (s2): move to the parent, close and free the
\* file, and go on with the parent.
GcFreeFile(s2, flags, visit, ret) ==
    LET file == s2.file
        parent == s2.files[file].parent
        stop == visit \in flags /\ s2.act = "STOP"
        s3 == [s2 EXCEPT !.previous = IF @ = file THEN parent ELSE @, !.file = parent]
    IN GcFree(FileFree(IF s3.files[file].fd THEN Close(s3, file) ELSE s3, file),
              IF stop THEN {} ELSE flags, "PARENTS", IF stop THEN -1 ELSE ret)

GcFree(s, flags, visit, ret) ==
    LET file == s.file
        s1 == [s EXCEPT !.files[file].refcount = @ - 1]
    IN IF file = NULL THEN [s EXCEPT !.rc = ret]
       ELSE IF s1.files[file].refcount > 0 THEN [s1 EXCEPT !.file = NULL, !.rc = ret]
       ELSE GcFreeFile(IF visit \in flags THEN GcCallBack(s1, "POST") ELSE s1,
                       flags, visit, ret)

\* A bftw_gc() whose last loop never visits the current file, only its
\* parents.
GcReportedNoFile(s4, flags, report) ==
    LET stop == report /\ s4.act = "STOP"
    IN GcFree(GcUnwrap([s4 EXCEPT !.direrror = NoError]),
              IF stop THEN {} ELSE flags \ {"FILE"}, "FILE", IF stop THEN -1 ELSE 0)

\* bftw_gc(), after the directory's error was reported or recorded (s4):
\* the to_close loop and the last loop.
GcReported(s4, flags, report) ==
    LET stop == report /\ s4.act = "STOP"
    IN GcFree(GcUnwrap([s4 EXCEPT !.direrror = NoError]),
              IF stop THEN {} ELSE flags, "FILE", IF stop THEN -1 ELSE 0)

\* bftw_gc(): flags is a subset of { "ERROR", "FILE", "PARENTS" } (enum
\* bftw_gc_flags); rc = -1 when a callback answered STOP.
Gc(s, flags) ==
    LET file == s.file
        s1 == IF file # NULL /\ s.dir THEN CacheUnpin(s, file) ELSE s
        s2 == IF file # NULL /\ s1.files[file].dir THEN DelayedUnwrap(s1, file) ELSE s1
        s3 == [s2 EXCEPT !.dir = FALSE, !.de = NULL]
        report == s.direrror # NoError /\ "ERROR" \in flags
    IN GcReported(IF s.direrror = NoError THEN s3
                  ELSE IF report THEN GcCallBack(s3, "PRE")
                  ELSE [s3 EXCEPT !.error = s.direrror],
                  flags, report)

\* ------------------------------------------------------------- main loop

\* The merge step of bftw_list_sort(): strcoll() compares the names.
RECURSIVE Merge(_, _)
Merge(left, right) ==
    IF left = <<>> THEN right
    ELSE IF right = <<>> THEN left
    ELSE IF FS[Head(left)].name <= FS[Head(right)].name
      THEN <<Head(left)>> \o Merge(Tail(left), right)
      ELSE <<Head(right)>> \o Merge(left, Tail(right))

\* bftw_list_sort(): the tortoise leaves the first half (rounded down) of
\* the list on the left.
RECURSIVE ListSort(_)
ListSort(list) ==
    LET half == Len(list) \div 2
    IN IF Len(list) < 2 THEN list
       ELSE Merge(ListSort(SubSeq(list, 1, half)),
                  ListSort(SubSeq(list, half + 1, Len(list))))

\* A bftw_flush() that does not sort.
FlushUnsorted(s) ==
    IoqOpendirs(QueueFlush(StatFiles(QueueFlush(s, "fileq")), "dirq"))

\* bftw_flush()
Flush(s) ==
    LET s1 == IF "SORT" \in s.flags
                THEN [s EXCEPT !.fileq.buffer = ListSort(@)] ELSE s
    IN IoqOpendirs(QueueFlush(StatFiles(QueueFlush(s1, "fileq")), "dirq"))

\* A bftw_closedir() that ends the walk when the directory failed to open.
ClosedirFatal(s) ==
    LET Collected(g) ==
            IF g.rc # 0 \/ s.direrror # NoError THEN [g EXCEPT !.rc = -1]
            ELSE [Flush(g) EXCEPT !.rc = 0]
    IN Collected(Gc(s, {"ERROR", "FILE", "PARENTS"}))

\* bftw_closedir()
Closedir(s) ==
    LET Collected(g) == IF g.rc # 0 THEN [g EXCEPT !.rc = -1] ELSE [Flush(g) EXCEPT !.rc = 0]
    IN Collected(Gc(s, {"ERROR", "FILE", "PARENTS"}))

\* A bftw_save_ftwbuf() that forgets the identity of the file.
SaveFtwbufNoId(s, f) == [s EXCEPT !.files[f].type = s.ftw.type]

\* bftw_save_ftwbuf()
SaveFtwbuf(s, f) ==
    [s EXCEPT !.files[f].type = s.ftw.type,
              !.files[f].dev = IF s.ftw.stat # "none" THEN s.ftw.dev ELSE @,
              !.files[f].ino = IF s.ftw.stat # "none" THEN s.ftw.ino ELSE @]

\* bftw_buffer_file()
BufferFile(s, name) ==
    IF name = NULL THEN FALSE
    ELSE IF "BUFFER" \in s.flags THEN TRUE
    ELSE IF ~s.ioq.open THEN FALSE
    ELSE IF ~QueueBalanced(s.fileq) THEN FALSE
    ELSE MustStat(s, IF s.file # NULL THEN s.files[s.file].depth + 1 ELSE 1,
                  IF s.de # NULL THEN DType(s, s.de) ELSE "unknown")

\* A bftw_visit() that pushes a directory whatever the callback returned
\* but STOP.
VisitActionPush(cb, name, stop_flags) ==
    LET f == IF name # NULL THEN name ELSE cb.file
        current == cb.file # NULL /\ name = NULL
    IN IF cb.act = "CONTINUE" \/ (cb.act = "PRUNE" /\ cb.ftw.type = "dir")
         THEN [PushDir(StatRecycle(SaveFtwbuf(IF name # NULL
                                                THEN FileNew(cb, cb.file, name)
                                                ELSE [cb EXCEPT !.file = NULL], f), f), f)
                 EXCEPT !.rc = 0]
       ELSE IF cb.act = "PRUNE"
         THEN IF current THEN Gc(cb, {"PARENTS"}) ELSE [cb EXCEPT !.rc = 0]
       ELSE [(IF current THEN Gc(cb, stop_flags) ELSE cb) EXCEPT !.rc = -1]

\* bftw_visit(): the switch on the action the callback returned (cb is
\* the state after bftw_call_back()); stop_flags are the flags of the
\* bftw_gc() made after a STOP.
VisitAction(cb, name, stop_flags) ==
    LET f == IF name # NULL THEN name ELSE cb.file
        current == cb.file # NULL /\ name = NULL
    IN CASE cb.act = "CONTINUE" ->
              [PushDir(StatRecycle(SaveFtwbuf(IF name # NULL
                                                THEN FileNew(cb, cb.file, name)
                                                ELSE [cb EXCEPT !.file = NULL], f), f), f)
                 EXCEPT !.rc = 0]
         [] cb.act = "PRUNE" ->
              IF current THEN Gc(cb, {"PARENTS"}) ELSE [cb EXCEPT !.rc = 0]
         [] OTHER ->
              [(IF current THEN Gc(cb, stop_flags) ELSE cb) EXCEPT !.rc = -1]

\* A bftw_visit() that, after a STOP, still makes the POST visits of the
\* parents of the current file.
VisitStopParents(s, name) ==
    LET n == FileNew(s, s.file, name)
    IN IF BufferFile(s, name)
         THEN [PushFile(IF s.de # NULL
                          THEN [n EXCEPT !.files[name].type = DType(s, s.de)]
                          ELSE n, name)
                 EXCEPT !.rc = 0]
         ELSE VisitAction(CallBack(s, name, "PRE", s.answer), name, {"PARENTS"})

\* bftw_visit(): name is a root path or the current dirent's name, or NULL
\* to visit the current file.  rc = 0, or -1 to end the walk.
Visit(s, name) ==
    LET n == FileNew(s, s.file, name)
    IN IF BufferFile(s, name)
         THEN [PushFile(IF s.de # NULL
                          THEN [n EXCEPT !.files[name].type = DType(s, s.de)]
                          ELSE n, name)
                 EXCEPT !.rc = 0]
         ELSE VisitAction(CallBack(s, name, "PRE", s.answer), name, {})

\* The loop of bftw_drain().
RECURSIVE DrainLoop(_, _)
DrainLoop(s, qn) ==
    LET p == Pop(s, qn)
    IN IF p.rc = 1 THEN DrainLoop(Gc(p, {}), qn) ELSE p

\* A bftw_drain() that pops without flushing the buffer.
DrainUnflushed(s, qn) == DrainLoop(s, qn)

\* bftw_drain()
Drain(s, qn) == DrainLoop(QueueFlush(s, qn), qn)

\* The loop of bftw_state_destroy() that pops every response of the ioq.
RECURSIVE IoqDrain(_)
IoqDrain(s) ==
    LET Popped(p) == IF p.rc >= 0 THEN IoqDrain(p) ELSE p
    IN Popped(IoqPop(s, TRUE))

\* bftw_cache_destroy()
CacheDestroy(s) ==
    IF s.cache.lru # <<>> THEN Fault(s, "cache_destroy: list not empty")
    ELSE IF s.cache.target # NULL THEN Fault(s, "cache_destroy: target")
    ELSE s

\* A bftw_state_destroy() that drains the queue of files alone.
StateDestroyFiles(s) ==
    LET s1 == IF s.ioq.open
                THEN [IoqDrain(IoqCancel(s)) EXCEPT
                         !.ioq.open = FALSE,
                         !.ioq.drained = Len(s.ioq.pending) + Len(s.ioq.done)]
                ELSE s
        Destroyed(s2) == [s2 EXCEPT !.errno = s2.error, !.path = <<>>,
                                    !.rc = IF s2.error # NoError THEN -1 ELSE 0]
    IN Destroyed(Drain(Gc(s1, {}), "fileq"))

\* A bftw_state_destroy() that cancels the ioq and pops no response.
StateDestroyNoDrain(s) ==
    LET s1 == IF s.ioq.open THEN [IoqCancel(s) EXCEPT !.ioq.open = FALSE] ELSE s
        Destroyed(s2) == [s2 EXCEPT !.errno = s2.error, !.path = <<>>,
                                    !.rc = IF s2.error # NoError THEN -1 ELSE 0]
    IN Destroyed(CacheDestroy(Drain(Drain(Gc(s1, {}), "dirq"), "fileq")))

\* A bftw_state_destroy() that always returns 0.
StateDestroyNoError(s) ==
    LET s1 == IF s.ioq.open
                THEN [IoqDrain(IoqCancel(s)) EXCEPT
                         !.ioq.open = FALSE,
                         !.ioq.drained = Len(s.ioq.pending) + Len(s.ioq.done)]
                ELSE s
        Destroyed(s2) == [s2 EXCEPT !.errno = s2.error, !.path = <<>>, !.rc = 0]
    IN Destroyed(CacheDestroy(Drain(Drain(Gc(s1, {}), "dirq"), "fileq")))

\* bftw_state_destroy(): rc is the value bftw() returns and errno the errno
\* it leaves.  The path is freed; nothing reads it meanwhile.  ioq.drained
\* records how many requests were not popped yet when it was called.
StateDestroy(s) ==
    LET s1 == IF s.ioq.open
                THEN [IoqDrain(IoqCancel(s)) EXCEPT
                         !.ioq.open = FALSE,
                         !.ioq.drained = Len(s.ioq.pending) + Len(s.ioq.done)]
                ELSE s
        Destroyed(s2) == [s2 EXCEPT !.errno = s2.error, !.path = <<>>,
                                    !.rc = IF s2.error # NoError THEN -1 ELSE 0]
    IN Destroyed(CacheDestroy(Drain(Drain(Gc(s1, {}), "dirq"), "fileq")))

\* bftw_must_buffer()
MustBuffer(args) ==
    \/ "SORT" \in args.flags
    \/ args.strategy = "DFS" /\ args.nthreads = 0
    \/ "STAT" \in args.flags /\ args.nthreads > 1

\* The struct bftw_ids_state around a walk that is not nested in bftw_ids()
\* or bftw_eds(): on tells whether state->callback is bftw_ids_callback().
NoIds ==
    [on |-> FALSE, visit |-> "PRE", force_visit |-> FALSE, min_depth |-> 0,
     max_depth |-> 1, pruned |-> {}, bottom |-> FALSE]

\* A bftw_state_init() that never asks the queues to keep their order.
StateInitNoOrder(args) ==
    LET flags == IF MustBuffer(args) THEN args.flags \cup {"BUFFER"} ELSE args.flags
        qflags == (IF args.strategy # "BFS" THEN {"QBUFFER", "QLIFO"} ELSE {})
                  \cup (IF "BUFFER" \in flags THEN {"QBUFFER"} ELSE {})
                  \cup (IF args.nthreads = 1 THEN {"QBALANCE"} ELSE {})
        dflags == IF args.strategy = "BFS" \/ "BUFFER" \in flags
                    THEN qflags \ {"QBUFFER", "QLIFO"} ELSE qflags
    IN [flags |-> flags, strategy |-> args.strategy, nthreads |-> args.nthreads,
        d_type |-> args.d_type, use_unwrapdir |-> args.use_unwrapdir,
        error |-> NoError,
        cache |-> CacheInit(args.nopenfd),
        ioq |-> [open |-> args.nthreads > 0, pending |-> <<>>, done |-> <<>>,
                    drained |-> 0],
        to_close |-> <<>>,
        fileq |-> QueueInit(qflags),
        dirq |-> QueueInit(dflags),
        files |-> [e \in Entries |-> NoFile],
        file |-> NULL, previous |-> NULL, path |-> <<>>, path_max |-> PathMax,
        dir |-> FALSE, pos |-> 0, de |-> NULL, direrror |-> NoError,
        ftw |-> NoFtw,
        log |-> <<>>, fault |-> "none",
        ids |-> NoIds,
        rc |-> 0, errno |-> NoError, act |-> "", cbret |-> "",
        answer |-> "", stop_at |-> 0, ncb |-> 0, race |-> 1]

\* bftw_state_init(), for nopenfd >= 2 and a build without io_uring.
StateInit(args) ==
    LET flags == IF MustBuffer(args) THEN args.flags \cup {"BUFFER"} ELSE args.flags
        qflags == (IF args.strategy # "BFS" THEN {"QBUFFER", "QLIFO"} ELSE {})
                  \cup (IF "BUFFER" \in flags THEN {"QBUFFER"} ELSE {})
                  \cup (IF "SORT" \in flags THEN {"QORDER"}
                        ELSE IF args.nthreads = 1 THEN {"QBALANCE"} ELSE {})
        dflags == IF args.strategy = "BFS" \/ "BUFFER" \in flags
                    THEN qflags \ {"QBUFFER", "QLIFO"} ELSE qflags
    IN [flags |-> flags, strategy |-> args.strategy, nthreads |-> args.nthreads,
        d_type |-> args.d_type, use_unwrapdir |-> args.use_unwrapdir,
        error |-> NoError,
        cache |-> CacheInit(args.nopenfd),
        ioq |-> [open |-> args.nthreads > 0, pending |-> <<>>, done |-> <<>>,
                    drained |-> 0],
        to_close |-> <<>>,
        fileq |-> QueueInit(qflags),
        dirq |-> QueueInit(dflags),
        files |-> [e \in Entries |-> NoFile],
        file |-> NULL, previous |-> NULL, path |-> <<>>, path_max |-> PathMax,
        dir |-> FALSE, pos |-> 0, de |-> NULL, direrror |-> NoError,
        ftw |-> NoFtw,
        log |-> <<>>, fault |-> "none",
        ids |-> NoIds,
        rc |-> 0, errno |-> NoError, act |-> "", cbret |-> "",
        answer |-> "", stop_at |-> 0, ncb |-> 0, race |-> 1]

\* --------------------------------------------------------------- the walk

VARIABLES
    args,   \* struct bftw_args, the arguments of bftw()
    state,  \* struct bftw_state
    pc,     \* where the main thread is in bftw_walk()
    ipath,  \* the loop counter i of the first loop of bftw_impl()
    ret     \* the return value of bftw()

vars == <<args, state, pc, ipath, ret>>

\* The callbacks whose answer is a function of the entry: one that always
\* answers CONTINUE and one that prunes b/x.
Scripts == {"continue", "prune"}

Script(callback, e) == IF callback = "prune" /\ e = 3 THEN "PRUNE" ELSE "CONTINUE"

\* The answers of the callback: args.callback tells whether the callback
\* keeps to enum bftw_action or may return any value.
Answers ==
    IF args.callback = "any" THEN {"CONTINUE", "PRUNE", "STOP", "INVALID"}
    ELSE IF args.callback \in Scripts THEN {"CONTINUE", "PRUNE"}
    ELSE {"CONTINUE", "PRUNE", "STOP"}

\* The largest number of callbacks one bftw_gc() makes: the error visit,
\* the file's own POST visit and that of each of its ancestors.
MaxGcVisits == 2

\* The state in which a step of the main loop starts: the callback's
\* answer for a PRE visit, which visit of bftw_gc() (if any) gets the
\* answer STOP, and which request in service the workers finish first when
\* the main thread has to wait.
Given(s, answer, stop_at, race) ==
    [s EXCEPT !.answer = answer, !.stop_at = stop_at, !.race = race, !.ncb = 0]

\* The state a step leaves: return values and the struct BFTW are dead.
Settle(s) ==
    [s EXCEPT !.rc = 0, !.errno = NoError, !.act = "", !.cbret = "", !.ftw = NoFtw,
              !.answer = "", !.stop_at = 0, !.race = 1, !.ncb = 0]

\* bftw_call_back() turns the answer CONTINUE into PRUNE for everything but
\* the PRE visit of a directory, so the two answers differ for the engine
\* on directories only: the callback of the model answers PRUNE to the PRE
\* visit of a directory, and CONTINUE or STOP to any visit.  s is the state
\* before the step and v the state after its bftw_visit().
Heeded(s, v, answer) ==
    /\ answer = "PRUNE" =>
          /\ Len(v.log) > Len(s.log)
          /\ v.log[Len(s.log) + 1].type = "dir"
    /\ args.callback \in Scripts =>
          IF Len(v.log) > Len(s.log) /\ v.log[Len(s.log) + 1].visit = "PRE"
                                     /\ v.log[Len(s.log) + 1].type # "error"
            THEN answer = Script(args.callback, v.log[Len(s.log) + 1].e)
            ELSE answer = "CONTINUE"

\* The visits of a bftw_gc() that can be answered with STOP (0: none): the
\* POST visits are made with BFTW_POST_ORDER only, which leaves the error
\* visit.
GcStops ==
    IF args.callback \in Scripts THEN {0}
    ELSE 0 .. (IF "POST_ORDER" \in state.flags THEN MaxGcVisits ELSE 1)

Races == 1 .. (IF state.nthreads > 1 THEN state.nthreads ELSE 1)

Strategies == {"BFS", "DFS"}

\* The flag sets of the walks.  Following links is paired with cycle
\* detection: the tree has a link to the root above it.
FlagSets ==
    { fl \cup cyc : fl \in SUBSET {"SORT", "BUFFER", "STAT", "POST_ORDER", "RECOVER"},
                    cyc \in {{}, {"FOLLOW_ALL", "DETECT_CYCLES"}} }

\* The arguments of the walks.  BFTW_BUFFER is given by the caller only
\* where bftw_state_init() would not add it anyway.  A readdir() that
\* reports no types (every entry needs a stat call, as with BFTW_STAT) is
\* tried without BFTW_STAT and on a build with bfs_unwrapdir().  Cycle
\* detection is tried with BFTW_RECOVER, which lets the walk go on after
\* the cycle is met, and with BFTW_POST_ORDER as the only other flag.  A
\* build without bfs_unwrapdir() is tried with fewer than MaxThreads ioq
\* threads.
ArgSets ==
    { a \in [strategy : Strategies, flags : FlagSets, nthreads : 0 .. MaxThreads,
              nopenfd : 2 .. MaxOpenFd, d_type : BOOLEAN, use_unwrapdir : BOOLEAN,
              callback : {"valid"}] :
        /\ "BUFFER" \in a.flags => ~MustBuffer([a EXCEPT !.flags = @ \ {"BUFFER"}])
        /\ ~a.d_type => a.use_unwrapdir /\ "STAT" \notin a.flags
        /\ "DETECT_CYCLES" \in a.flags =>
              /\ "RECOVER" \in a.flags
              /\ a.flags \subseteq {"FOLLOW_ALL", "DETECT_CYCLES", "RECOVER", "POST_ORDER"}
        /\ ~a.use_unwrapdir => a.nthreads < MaxThreads }

Init ==
    /\ args \in ArgSets
    /\ state = StateInit(args)
    /\ pc = "roots"
    /\ ipath = 0
    /\ ret = 0

\* bftw_impl(): visit the next root path.
VisitRoot ==
    /\ pc = "roots"
    /\ ipath < Len(RootPaths)
    /\ \E answer \in Answers, race \in Races :
          LET Visited(v) ==
                  /\ Heeded(state, v, answer)
                  /\ state' = Settle(v)
                  /\ pc' = IF v.rc # 0 THEN "destroy" ELSE "roots"
          IN Visited(Visit(Given(state, answer, 0, race), RootPaths[ipath + 1]))
    /\ ipath' = ipath + 1
    /\ UNCHANGED <<args, ret>>

\* bftw_impl(): the bftw_flush() after the last root path.
FlushRoots ==
    /\ pc = "roots"
    /\ ipath = Len(RootPaths)
    /\ \E race \in Races : state' = Settle(Flush(Given(state, "", 0, race)))
    /\ pc' = "loop"
    /\ UNCHANGED <<args, ipath, ret>>

\* bftw_impl(): bftw_pop_dir() yields a directory, bftw_opendir() opens it.
OpenDir ==
    /\ pc = "loop"
    /\ \E race \in Races :
          LET Popped(p) ==
                  /\ p.rc = 1
                  /\ state' = Settle(Opendir(p))
          IN Popped(PopDir(Given(state, "", 0, race)))
    /\ pc' = "read"
    /\ UNCHANGED <<args, ipath, ret>>

\* bftw_impl(): bftw_readdir() yields an entry, bftw_visit() visits it.
ReadDir ==
    /\ pc = "read"
    /\ \E answer \in Answers, race \in Races :
          LET r == Readdir(Given(state, answer, 0, race))
              Visited(v) ==
                  /\ Heeded(state, v, answer)
                  /\ state' = Settle(v)
                  /\ pc' = IF v.rc # 0 THEN "destroy" ELSE "read"
          IN /\ r.rc > 0
             /\ Visited(Visit(r, r.de))
    /\ UNCHANGED <<args, ipath, ret>>

\* bftw_impl(): bftw_readdir() yields nothing more, bftw_closedir().
CloseDir ==
    /\ pc = "read"
    /\ \E stop_at \in GcStops, race \in Races :
          LET r == Readdir(Given(state, "", stop_at, race))
              Closed(c) ==
                  /\ state' = Settle(c)
                  /\ pc' = IF c.rc # 0 THEN "destroy" ELSE "loop"
          IN /\ r.rc <= 0
             /\ Closed(Closedir(r))
    /\ UNCHANGED <<args, ipath, ret>>

\* bftw_impl(): no directory to read, bftw_pop_file() yields a file,
\* bftw_visit() visits it, bftw_flush().
VisitFile ==
    /\ pc = "loop"
    /\ \E answer \in Answers, stop_at \in GcStops, race \in Races :
          LET d == PopDir(Given(state, answer, stop_at, race))
              f == PopFile(d)
              Visited(v) ==
                  /\ Heeded(state, v, answer)
                  /\ state' = Settle(IF v.rc # 0 THEN v ELSE Flush(v))
                  /\ pc' = IF v.rc # 0 THEN "destroy" ELSE "loop"
          IN /\ answer = "STOP" => stop_at = 0
             /\ d.rc = 0
             /\ f.rc = 1
             /\ Visited(Visit(f, NULL))
    /\ UNCHANGED <<args, ipath, ret>>

\* bftw_impl(): both queues are empty, the loop ends and bftw_impl()
\* returns 0, to bftw_walk() or to the loop of bftw_ids() or bftw_eds().
Finish ==
    /\ pc = "loop"
    /\ \E race \in Races :
          LET d == PopDir(Given(state, "", 0, race))
              f == PopFile(d)
          IN /\ d.rc = 0
             /\ f.rc = 0
             /\ state' = Settle(f)
    /\ pc' = IF state.ids.on THEN "round" ELSE "destroy"
    /\ UNCHANGED <<args, ipath, ret>>

\* bftw_walk(): bftw_state_destroy() and return.
Destroy ==
    /\ pc = "destroy"
    /\ LET Destroyed(d) ==
               /\ state' = [Settle(d) EXCEPT !.errno = d.errno]
               /\ ret' = d.rc
       IN Destroyed(StateDestroy(Given(state, "", 0, 1)))
    /\ pc' = "returned"
    /\ UNCHANGED <<args, ipath>>

\* An ioq worker thread finishes one of the requests in service.
IoqWorker ==
    /\ pc # "returned"
    /\ \E k \in InService(state) : state' = IoqFinish(state, k)
    /\ UNCHANGED <<args, pc, ipath, ret>>

Next ==
    \/ VisitRoot
    \/ FlushRoots
    \/ OpenDir
    \/ ReadDir
    \/ CloseDir
    \/ VisitFile
    \/ Finish
    \/ Destroy
    \/ IoqWorker

Spec == Init /\ [][Next]_vars

\* ------------------------------------------------------ walks with mounts

\* The arguments of the walks that skip or prune mount points.
MountArgSets ==
    [strategy : Strategies,
     flags : { m \cup x : m \in {{"SKIP_MOUNTS"}, {"PRUNE_MOUNTS"}},
                          x \in SUBSET {"POST_ORDER", "RECOVER"} },
     nthreads : 0 .. MaxThreads, nopenfd : 2 .. MaxOpenFd, d_type : BOOLEAN,
     use_unwrapdir : {TRUE}, callback : {"valid"}]

InitMounts ==
    /\ args \in MountArgSets
    /\ state = StateInit(args)
    /\ pc = "roots"
    /\ ipath = 0
    /\ ret = 0

SpecMounts == InitMounts /\ [][Next]_vars

\* -------------------------------------------------------- the same walk twice

\* The arguments of the walks that are made twice, with a callback whose
\* answers are a function of the entry.
TwiceArgSets ==
    { a \in [strategy : Strategies,
              flags : {{}, {"SORT"}, {"RECOVER"}, {"RECOVER", "SORT"},
                       {"RECOVER", "POST_ORDER"}},
              nthreads : 0 .. MaxThreads, nopenfd : {MaxOpenFd}, d_type : BOOLEAN,
              use_unwrapdir : {TRUE}, callback : Scripts] :
        ~a.d_type => a.flags = {"RECOVER"} }

InitTwice ==
    /\ args \in TwiceArgSets
    /\ state = StateInit(args)
    /\ pc = "roots"
    /\ ipath = 0
    /\ ret = 0

\* The mark in the log between the visits of two calls of bftw().
Call ==
    [e |-> NULL, visit |-> "CALL", type |-> "unknown", error |-> NoError,
     depth |-> 0, answer |-> "", path |-> <<>>]

\* bftw() is called a second time with the same arguments, on the same tree.
BftwAgain ==
    /\ pc = "returned"
    /\ \A k \in 1 .. Len(state.log) : state.log[k] # Call
    /\ state' = [StateInit(args) EXCEPT !.log = Append(state.log, Call)]
    /\ pc' = "roots"
    /\ ipath' = 0
    /\ ret' = 0
    /\ UNCHANGED args

NextTwice ==
    \/ BftwAgain
    \/ Next

SpecTwice == InitTwice /\ [][NextTwice]_vars

\* ------------------------------------------------------- the call of bftw()

\* A struct bftw_state that bftw_state_init() has not filled yet.
NoState ==
    StateInit([strategy |-> "BFS", flags |-> {}, nthreads |-> 0, nopenfd |-> 2,
               d_type |-> TRUE, use_unwrapdir |-> TRUE, callback |-> "valid"])

\* The arguments of the calls of bftw(): valid ones, a strategy that is not
\* in enum bftw_strategy, a descriptor budget below 2, and a callback that
\* may return a value that is not in enum bftw_action.
BftwArgSets ==
    { a \in [strategy : {"BFS", "DFS", "IDS", "EDS", "NONE"},
              flags : {{}, {"SORT"}, {"POST_ORDER"}, {"RECOVER", "POST_ORDER"},
                       {"RECOVER", "FOLLOW_ALL", "DETECT_CYCLES"}},
              nthreads : 0 .. 1, nopenfd : 1 .. 2, d_type : {TRUE},
              use_unwrapdir : {TRUE}, callback : {"valid", "any"}] :
        /\ a.strategy = "NONE" \/ a.nopenfd < 2 => a.nthreads = 0 /\ a.flags = {}
        /\ a.callback = "any" => a.flags \subseteq {"RECOVER", "POST_ORDER"} }

InitBftw ==
    /\ args \in BftwArgSets
    /\ state = NoState
    /\ pc = "call"
    /\ ipath = 0
    /\ ret = 0

\* A bftw() that answers EINVAL to a descriptor budget below 2.
BftwInvalid ==
    /\ pc = "call"
    /\ IF args.strategy \notin {"BFS", "DFS"} \/ args.nopenfd < 2
         THEN /\ state' = [state EXCEPT !.errno = "EINVAL"]
              /\ ret' = -1
              /\ pc' = "returned"
         ELSE /\ state' = StateInit(args)
              /\ ret' = ret
              /\ pc' = "roots"
    /\ UNCHANGED <<args, ipath>>

\* bftw_ids_init(), for nopenfd >= 2: the nested walk has no
\* BFTW_POST_ORDER and bftw_ids_callback() as its callback.
IdsInit(a) ==
    [StateInit([a EXCEPT !.flags = @ \ {"POST_ORDER"}])
       EXCEPT !.ids = [NoIds EXCEPT !.on = TRUE]]

\* A bftw_ids() whose second loop ends before the round of the roots.
IdsLoopShort(s, a) ==
    LET ids == s.ids
        deeper == [ids EXCEPT !.min_depth = @ + 1, !.max_depth = @ + 1]
    IN IF ids.visit = "PRE"
         THEN IF ~ids.bottom
                THEN [s EXCEPT !.ids = [deeper EXCEPT !.bottom = TRUE], !.rc = 1]
              ELSE IF "POST_ORDER" \in a.flags
                THEN [s EXCEPT !.ids = [ids EXCEPT !.visit = "POST", !.force_visit = TRUE],
                               !.rc = 1]
              ELSE [s EXCEPT !.ids = deeper, !.rc = 0]
       ELSE IF ids.min_depth > 1
         THEN [s EXCEPT !.ids.max_depth = @ - 1, !.ids.min_depth = @ - 1, !.rc = 1]
       ELSE [s EXCEPT !.rc = 0]

\* The loops of bftw_ids() between two calls of bftw_impl(), the last of
\* which returned 0: rc = 1 when bftw_impl() is called again, 0 at the
\* label done.
IdsLoop(s, a) ==
    LET ids == s.ids
        deeper == [ids EXCEPT !.min_depth = @ + 1, !.max_depth = @ + 1]
    IN IF ids.visit = "PRE"
         THEN IF ~ids.bottom
                THEN [s EXCEPT !.ids = [deeper EXCEPT !.bottom = TRUE], !.rc = 1]
              ELSE IF "POST_ORDER" \in a.flags
                THEN [s EXCEPT !.ids = [ids EXCEPT !.visit = "POST", !.force_visit = TRUE],
                               !.rc = 1]
              ELSE [s EXCEPT !.ids = deeper, !.rc = 0]
       ELSE IF ids.min_depth > 0
         THEN [s EXCEPT !.ids.max_depth = @ - 1, !.ids.min_depth = @ - 1, !.rc = 1]
       ELSE [s EXCEPT !.rc = 0]

\* The loop of bftw_eds() between two calls of bftw_impl(), and its last
\* call of bftw_impl() for the POST visits.
EdsLoop(s, a) ==
    LET ids == s.ids
        deeper == [ids EXCEPT !.min_depth = ids.max_depth, !.max_depth = 2 * @]
    IN IF ids.visit = "POST" THEN [s EXCEPT !.rc = 0]
       ELSE IF ~ids.bottom
         THEN [s EXCEPT !.ids = [deeper EXCEPT !.bottom = TRUE], !.rc = 1]
       ELSE IF "POST_ORDER" \in a.flags
         THEN [s EXCEPT !.ids = [deeper EXCEPT !.visit = "POST", !.min_depth = 0],
                        !.flags = @ \cup {"POST_ORDER"}, !.rc = 1]
       ELSE [s EXCEPT !.ids = deeper, !.rc = 0]

\* bftw(): the switch on args->strategy, the bftw_state_init() of
\* bftw_walk() or bftw_ids_init() with its check of args->nopenfd, and the
\* first pass of the loop of bftw_ids() and bftw_eds() up to bftw_impl().
Bftw ==
    /\ pc = "call"
    /\ IF args.strategy \notin {"BFS", "DFS", "IDS", "EDS"}
         THEN /\ state' = [state EXCEPT !.errno = "EINVAL"]
              /\ ret' = -1
              /\ pc' = "returned"
         ELSE IF args.nopenfd < 2
         THEN /\ state' = [state EXCEPT !.errno = "EMFILE"]
              /\ ret' = -1
              /\ pc' = "returned"
         ELSE /\ state' = IF args.strategy \in {"IDS", "EDS"}
                             THEN [IdsInit(args) EXCEPT !.ids.bottom = TRUE]
                             ELSE StateInit(args)
              /\ ret' = ret
              /\ pc' = "roots"
    /\ UNCHANGED <<args, ipath>>

\* bftw_ids(), bftw_eds(): bftw_impl() returned 0; the next round, or the
\* label done.
IdsRound ==
    /\ pc = "round"
    /\ LET Looped(l) ==
               /\ state' = Settle(l)
               /\ pc' = IF l.rc = 1 THEN "roots" ELSE "destroy"
       IN Looped(IF state.strategy = "EDS" THEN EdsLoop(state, args)
                 ELSE IdsLoop(state, args))
    /\ ipath' = 0
    /\ UNCHANGED <<args, ret>>

NextBftw ==
    \/ Bftw
    \/ IdsRound
    \/ Next

SpecBftw == InitBftw /\ [][NextBftw]_vars

\* The steps of the thread that called bftw().
MainThread ==
    \/ Bftw
    \/ IdsRound
    \/ VisitRoot
    \/ FlushRoots
    \/ OpenDir
    \/ ReadDir
    \/ CloseDir
    \/ VisitFile
    \/ Finish
    \/ Destroy

\* The calling thread can take a step until bftw() has returned: the
\* guards of its steps at each value of pc cover all cases, and it waits
\* for the ioq inside a step.
MainThreadEnabled == pc # "returned"

\* The call of bftw() when the calling thread keeps running, the callback
\* always returns and the ioq threads finish every request they were
\* given: weak fairness of the calling thread, written out with its
\* enabling condition, and of the ioq threads.
FairBftw ==
    /\ SpecBftw
    /\ []<>(~MainThreadEnabled) \/ []<><<MainThread>>_vars
    /\ WF_vars(IoqWorker)

\* No bfs_assert() of the engine fails.
NoFault == state.fault = "none"

\* ------------------------------------------------------- the visit log

\* The visits made so far, in order.
Log == state.log

\* The positions in the log of the visits of entry e with the given visit.
Visits(e, visit) == { k \in 1 .. Len(Log) : Log[k].e = e /\ Log[k].visit = visit }

\* The entries above e in the tree.
RECURSIVE Above(_)
Above(e) == IF FS[e].parent = NULL THEN {} ELSE {FS[e].parent} \cup Above(FS[e].parent)

\* The callback answered PRUNE to the PRE visit of e.
Pruned(e) == \E k \in Visits(e, "PRE") : Log[k].answer = "PRUNE"

\* The callback answered CONTINUE to the PRE visit of e as a directory: the
\* engine goes on to read e.
Descended(e) ==
    \E k \in Visits(e, "PRE") : Log[k].type = "dir" /\ Log[k].answer = "CONTINUE"

\* e is below a pruned directory.
Excluded(e) == \E a \in Above(e) : Pruned(a)

\* The callback answered STOP to some visit.
Stopped == \E k \in 1 .. Len(Log) : Log[k].answer = "STOP"

\* bftw() has returned from a walk that no STOP and no error cut short.
Completed == pc = "returned" /\ ~Stopped /\ state.error = NoError

\* ----------------------------------------------------------------- C1

FirstVisits ==
    { k \in 1 .. Len(Log) : ~\E j \in 1 .. (k - 1) : Log[j].e = Log[k].e }

\* The callback has not answered PRUNE.
NoPrune == \A k \in 1 .. Len(Log) : Log[k].answer # "PRUNE"

\* Entries are first visited in order of depth.
DepthOrder == \A k, l \in FirstVisits : k < l => Log[k].depth <= Log[l].depth

\* C2 as stated: under BFTW_BFS, when the callback never answers PRUNE, an
\* entry is visited before every deeper entry, for every number of ioq
\* threads.
C2_AsStated == state.strategy = "BFS" /\ NoPrune => DepthOrder

\* C2, amended: under BFTW_BFS, when the callback never answers PRUNE, an
\* entry is visited before every deeper entry provided BFTW_SORT is set or
\* there are no ioq threads.  (With ioq threads and no BFTW_SORT,
\* bftw_pop_dir() takes a directory while a shallower file still waits for
\* its async stat, and the directory's entries are visited first.)
C2_BreadthFirst ==
    /\ state.strategy = "BFS"
    /\ NoPrune
    /\ "SORT" \in state.flags \/ state.nthreads = 0
    => DepthOrder

\* A sorted breadth-first walk with two ioq threads on a system whose
\* readdir() reports no types has visited every entry of the tree.
C2_Witness ==
    /\ state.strategy = "BFS"
    /\ NoPrune
    /\ ~state.d_type
    /\ "SORT" \in state.flags
    /\ state.nthreads = 2
    /\ \E k \in FirstVisits : Log[k].depth = 2
    /\ Cardinality(FirstVisits) = Cardinality(Entries)

\* ----------------------------------------------------------------- C3

\* Two entries of the same directory.
Siblings(x, y) == x # y /\ FS[x].parent # NULL /\ FS[x].parent = FS[y].parent

\* Of two siblings, the one visited second comes after everything below
\* the one visited first.
DepthFirst ==
    \A k, l \in FirstVisits : k < l /\ Siblings(Log[k].e, Log[l].e) =>
        \A m \in FirstVisits : Log[k].e \in Above(Log[m].e) => m < l

\* C3: under BFTW_DFS without ioq threads (bftw_must_buffer() turns
\* BFTW_BUFFER on), of two siblings the one visited second is visited after
\* every descendant of the one visited first, whether or not the entries
\* need a stat call.
C3_DepthFirst == state.strategy = "DFS" /\ state.nthreads = 0 => DepthFirst

\* A depth-first walk without ioq threads whose entries need no stat call
\* has visited a directory, the sibling after it and the entry below it.
C3_Witness ==
    /\ state.strategy = "DFS"
    /\ state.nthreads = 0
    /\ state.d_type
    /\ "STAT" \notin state.flags
    /\ "SORT" \notin state.flags
    /\ \E k, l, m \in FirstVisits :
          /\ k < l
          /\ Siblings(Log[k].e, Log[l].e)
          /\ Log[k].e \in Above(Log[m].e)

\* ----------------------------------------------------------------- C4

\* C4: with BFTW_SORT the entries of any one directory are visited in
\* non-decreasing order of their names, for every strategy, every number
\* of ioq threads and every order in which the ioq completes its requests.
C4_Sorted ==
    "SORT" \in state.flags =>
        \A k, l \in FirstVisits : k < l /\ Siblings(Log[k].e, Log[l].e) =>
            FS[Log[k].e].name <= FS[Log[l].e].name

\* A sorted walk with two ioq threads has visited all three entries of a
\* directory, which readdir() returns in another order.
C4_Witness ==
    /\ "SORT" \in state.flags
    /\ state.nthreads = 2
    /\ \E d \in Entries :
          /\ Len(FS[d].children) = 3
          /\ \E p, q \in 1 .. 3 : p < q /\ FS[FS[d].children[p]].name > FS[FS[d].children[q]].name
          /\ \A p \in 1 .. 3 : Visits(FS[d].children[p], "PRE") # {}

\* ----------------------------------------------------------------- C5

\* The roots are first visited in the order of the sequence paths.
RootsInOrder(paths) ==
    \A p, q \in DOMAIN paths : p < q =>
        \A k, l \in FirstVisits : Log[k].e = paths[p] /\ Log[l].e = paths[q] => k < l

\* The root paths sorted by name, as bftw_flush() sorts them.
SortedRootPaths == ListSort(RootPaths)

Seen(e) == IF "FOLLOW_ALL" \in state.flags THEN Resolve(e) ELSE e

\* Entry e is a directory with the (dev, ino) of an entry above it.
Cyclic(e) ==
    /\ FS[Seen(e)].kind = "dir"
    /\ \E a \in Above(e) : FS[a].dev = FS[Seen(e)].dev /\ FS[a].ino = FS[Seen(e)].ino

\* C6: with BFTW_DETECT_CYCLES and BFTW_RECOVER, an entry whose (dev, ino)
\* is that of a record on its parent chain is passed to the callback with
\* type=Error and error=ELOOP, never as a directory, and the engine never
\* descends into it: it is never put on the directory queue and never the
\* directory being read.
C6_Cycles ==
    {"DETECT_CYCLES", "RECOVER"} \subseteq state.flags =>
        \A e \in Entries : Cyclic(e) =>
            /\ \A k \in 1 .. Len(Log) : Log[k].e = e =>
                  Log[k].type = "error" /\ Log[k].error = "ELOOP"
            /\ ~InSeq(state.dirq.buffer \o state.dirq.waiting \o state.dirq.ready, e)
            /\ \A r \in DOMAIN state.ioq.pending :
                  ~(state.ioq.pending[r].op = "opendir" /\ state.ioq.pending[r].file = e)
            /\ ~(pc = "read" /\ state.file = e)

\* A walk with cycle detection has visited the link back to the root.
C6_Witness ==
    /\ {"DETECT_CYCLES", "RECOVER"} \subseteq state.flags
    /\ \E e \in Entries : Cyclic(e) /\ Visits(e, "PRE") # {}

\* ----------------------------------------------------------------- C7

\* The number of requests among seq with one of the operations ops.
Requests(seq, ops) == Cardinality({ r \in DOMAIN seq : seq[r].op \in ops })

\* The descriptors owned by records.
OwnedFds == Cardinality({ e \in Entries : state.files[e].live /\ state.files[e].fd })

\* The descriptors the engine holds: those owned by records, one for each
\* opendir request in flight and one for each close or closedir request
\* not completed.  A request counts until its completion is popped.
HeldFds ==
    OwnedFds + Requests(state.ioq.pending \o state.ioq.done, {"opendir", "close", "closedir"})

\* C7: the engine never holds more than nopenfd descriptors, and the
\* remaining capacity of the cache never underflows.
C7_OpenFds == HeldFds <= args.nopenfd /\ state.cache.capacity >= 0

\* With the whole budget in use, a record owns a descriptor while an
\* opendir request is in flight.
C7_Witness ==
    /\ HeldFds = args.nopenfd
    /\ state.cache.capacity = 0
    /\ OwnedFds > 0
    /\ Requests(state.ioq.pending, {"opendir"}) > 0

\* ----------------------------------------------------------------- C8

\* C8: when bftw() returns, no ioq request is in flight: every request
\* was popped, the ioqueued counters of both queues are 0 and no record
\* is marked ioqueued.
C8_Quiescent ==
    pc = "returned" =>
        /\ state.ioq.pending = <<>>
        /\ state.ioq.done = <<>>
        /\ state.dirq.ioqueued = 0
        /\ state.fileq.ioqueued = 0
        /\ \A e \in Entries : ~state.files[e].ioqueued

\* bftw() has returned after a STOP that found two requests in the ioq.
C8_Witness ==
    /\ pc = "returned"
    /\ Stopped
    /\ state.ioq.drained >= 2

\* ----------------------------------------------------------------- C9

\* C9: after the callback answers STOP no further visit is made: a STOP
\* is the answer to the last visit of the log only.
C9_StopIsLast == \A k \in 1 .. Len(Log) - 1 : Log[k].answer # "STOP"

\* bftw() has returned after a STOP answered to the POST visit of an entry
\* below a root: the parents of the entry have no POST visit and an entry
\* was never visited.
C9_Witness ==
    /\ pc = "returned"
    /\ Len(Log) > 0
    /\ Log[Len(Log)].answer = "STOP"
    /\ Log[Len(Log)].visit = "POST"
    /\ Log[Len(Log)].depth > 0
    /\ \A a \in Above(Log[Len(Log)].e) : Visits(a, "POST") = {}
    /\ \E e \in Entries : Visits(e, "PRE") = {}

\* ---------------------------------------------------------------- C10

\* C10 as stated: after a STOP bftw() returns -1, and it returns 0 only
\* when the walk ran to completion with no error.
C10_AsStated ==
    pc = "returned" =>
        /\ Stopped => ret = -1
        /\ ret = 0 => ~Stopped /\ state.error = NoError

\* C10, amended: a STOP of the callback ends the walk and is not an error:
\* bftw() returns -1 when an error was recorded and 0 otherwise, after a
\* STOP too.
C10_ReturnValue ==
    pc = "returned" =>
        /\ ret = (IF state.error # NoError THEN -1 ELSE 0)
        /\ Stopped /\ state.error = NoError => ret = 0

\* bftw() has returned 0 after a STOP that left entries unvisited.
C10_Witness ==
    /\ pc = "returned"
    /\ Stopped
    /\ ret = 0
    /\ \E e \in Entries : Visits(e, "PRE") = {}

\* ---------------------------------------------------------------- C11

\* Every entry that is not below a pruned directory has been visited.
AllVisited == \A e \in Entries : ~Excluded(e) => Visits(e, "PRE") # {}

Failure(e) ==
    IF "DETECT_CYCLES" \in state.flags /\ Cyclic(e) THEN "ELOOP"
    ELSE IF FS[e].kind = "dir" /\ ~FS[e].openable THEN "EACCES"
    ELSE NoError

BadAnswer == \E k \in 1 .. Len(Log) : Log[k].answer = "INVALID"

\* C13 as stated: an invalid strategy, nopenfd < 2 and an invalid return
\* value of the callback each make bftw() return -1 with errno EINVAL, the
\* first two without any call of the callback.
C13_AsStated ==
    pc = "returned" =>
        /\ args.strategy = "NONE" \/ args.nopenfd < 2 =>
              ret = -1 /\ state.errno = "EINVAL" /\ Log = <<>>
        /\ BadAnswer => ret = -1 /\ state.errno = "EINVAL"

\* C13, amended: an invalid strategy and an invalid return value of the
\* callback make bftw() return -1 with errno EINVAL; nopenfd < 2 (with a
\* valid strategy) makes it return -1 with errno EMFILE; for an invalid
\* strategy or nopenfd < 2 the callback is never called, and an invalid
\* return value is the last thing the callback returns.
C13_LogicErrors ==
    pc = "returned" =>
        /\ args.strategy = "NONE" => ret = -1 /\ state.errno = "EINVAL" /\ Log = <<>>
        /\ args.strategy # "NONE" /\ args.nopenfd < 2 =>
              ret = -1 /\ state.errno = "EMFILE" /\ Log = <<>>
        /\ BadAnswer =>
              /\ ret = -1
              /\ state.errno = "EINVAL"
              /\ Log[Len(Log)].answer = "INVALID"

\* bftw() has returned -1 with errno EMFILE from a call with a valid
\* strategy and nopenfd = 1.
C13_Witness ==
    /\ pc = "returned"
    /\ args.strategy \in {"BFS", "DFS"}
    /\ args.nopenfd = 1
    /\ ret = -1
    /\ state.errno = "EMFILE"
    /\ Log = <<>>

\* ---------------------------------------------------------------- C14

\* The engine holds entry e as a directory to read: e is on the directory
\* queue, an opendir request for it is in the ioq, or it is the directory
\* being read.
Queued(e) ==
    \/ InSeq(state.dirq.buffer \o state.dirq.waiting \o state.dirq.ready, e)
    \/ \E r \in DOMAIN state.ioq.pending :
          state.ioq.pending[r].op = "opendir" /\ state.ioq.pending[r].file = e
    \/ \E r \in DOMAIN state.ioq.done :
          state.ioq.done[r].op = "opendir" /\ state.ioq.done[r].file = e
    \/ pc = "read" /\ state.file = e

\* C14: a directory whose PRE visit the callback answered with PRUNE is
\* never on the directory queue and never read, and no entry below it is
\* ever passed to the callback, whether the directory was visited from its
\* dirent or as a buffered record.
C14_Pruned ==
    \A e \in Entries : Pruned(e) =>
        /\ ~Queued(e)
        /\ \A d \in Entries : e \in Above(d) =>
              ~Queued(d) /\ \A k \in 1 .. Len(Log) : Log[k].e # d

\* bftw() has returned from a walk that buffers its records, in which the
\* callback answered PRUNE to a directory below a root that has entries.
C14_Witness ==
    /\ pc = "returned"
    /\ "BUFFER" \in state.flags
    /\ \E e \in Entries : Pruned(e) /\ FS[e].parent # NULL /\ FS[e].children # <<>>
    /\ \E e \in Entries : Descended(e) /\ Visits(FS[e].children[1], "PRE") # {}

\* ---------------------------------------------------------------- C15

\* Entry e is a mount point: it is not a root and the device of its stat
\* buffer is not that of its parent.
MountPoint(e) == FS[e].parent # NULL /\ FS[Seen(e)].dev # FS[FS[e].parent].dev

\* C15: with BFTW_SKIP_MOUNTS the callback is never called for a mount
\* point; with BFTW_PRUNE_MOUNTS it is called, and whatever it answers the
\* mount point is not put on the directory queue; either way the engine
\* never reads the mount point and visits no entry below it.
C15_Mounts ==
    \A e \in Entries : MountPoint(e) =>
        /\ "SKIP_MOUNTS" \in state.flags => \A k \in 1 .. Len(Log) : Log[k].e # e
        /\ state.flags \cap {"SKIP_MOUNTS", "PRUNE_MOUNTS"} # {} =>
              /\ ~Queued(e)
              /\ \A d \in Entries : e \in Above(d) =>
                    ~Queued(d) /\ \A k \in 1 .. Len(Log) : Log[k].e # d

\* bftw() has returned from a walk with BFTW_PRUNE_MOUNTS in which the
\* callback answered CONTINUE to the PRE visit of a directory that is a
\* mount point, and every entry outside the mount point was visited.
C15_Witness ==
    /\ pc = "returned"
    /\ "PRUNE_MOUNTS" \in state.flags
    /\ \E e \in Entries : MountPoint(e) /\ Descended(e) /\ FS[e].children # <<>>
    /\ \A d \in Entries : (\A a \in Above(d) : ~MountPoint(a)) => Visits(d, "PRE") # {}

\* ---------------------------------------------------------------- C16

\* The record of entry e is freed by the step.
Freed(e) == state.files[e].live /\ ~state'.files[e].live

\* The POST visit of a directory comes after every visit of the directory
\* and of the entries below it.
PostLast ==
    \A d \in Entries : \A k \in Visits(d, "POST") :
        /\ \E j \in Visits(d, "PRE") : j < k
        /\ \A j \in 1 .. Len(Log) : Log[j].e = d \/ d \in Above(Log[j].e) => j <= k

\* C16 as stated: with BFTW_POST_ORDER, the POST visit of a directory
\* comes after the visits of every entry below it, and every record that
\* is freed has had its POST visit and has no child left.
C16_AsStated ==
    /\ []("POST_ORDER" \in state.flags => PostLast)
    /\ [][\A e \in Entries : "POST_ORDER" \in state.flags /\ Freed(e) =>
            /\ Visits(e, "POST")' # {}
            /\ \A c \in Entries : FS[c].parent = e => ~state'.files[c].live]_vars

\* C16: with BFTW_POST_ORDER, the POST visit of a directory comes after the
\* visits of every entry below it; a record is freed only when it has no
\* child left, and the record of a directory that the walk descended into
\* is freed only after its POST visit, as long as no STOP and no error has
\* ended the walk.  The records of other entries (a non-directory, a pruned
\* directory) are freed without a POST visit.
C16_PostOrder ==
    /\ []("POST_ORDER" \in state.flags => PostLast)
    /\ [](\A c \in Entries : state.files[c].live /\ FS[c].parent # NULL =>
              state.files[FS[c].parent].live)
    /\ [][\A e \in Entries : "POST_ORDER" \in state.flags /\ Freed(e) =>
            /\ \A c \in Entries : FS[c].parent = e => ~state'.files[c].live
            /\ (Descended(e) /\ ~Stopped /\ state.error = NoError)' =>
                  Visits(e, "POST")' # {}
            /\ Visits(e, "POST")' # {} => Descended(e)]_vars

\* bftw() has returned from a walk with BFTW_POST_ORDER that nothing cut
\* short: b, b/x and the directory a that cannot be opened had their POST
\* visits, b's after those of b/x and after the visits of the entries of
\* b, every record is freed, and the record of the file b/y was freed
\* without a POST visit.
C16_Witness ==
    /\ Completed
    /\ "POST_ORDER" \in state.flags
    /\ \A e \in Entries : ~state.files[e].live
    /\ \A d \in {1, 2, 3} : Visits(d, "POST") # {}
    /\ \A e \in {4, 5, 6} : Visits(e, "PRE") # {} /\ Visits(e, "POST") = {}
    /\ "BUFFER" \in state.flags

\* ---------------------------------------------------------------- C17

\* C17: when the calling thread keeps running and the ioq threads finish
\* their requests, every call of bftw() returns, for BFTW_BFS, BFTW_DFS,
\* BFTW_IDS and BFTW_EDS and also on the tree whose links lead back to a
\* directory above them (with BFTW_DETECT_CYCLES); and bftw_pop() never
\* waits for a file whose ioqueued flag is set when the ioq has no
\* response left to give.
C17_Terminates ==
    /\ <>(pc = "returned")
    /\ [](state.fault # "pop: waits forever")

\* bftw() has returned from an iterative deepening walk with one ioq thread
\* that followed links and met both links back to b, reported as ELOOP,
\* after the ioq had answered requests.
C17_Witness ==
    /\ pc = "returned"
    /\ args.strategy = "IDS"
    /\ args.nthreads = 1
    /\ "DETECT_CYCLES" \in state.flags
    /\ ret = 0
    /\ \A e \in {5, 6} : \E k \in Visits(e, "PRE") : Log[k].error = "ELOOP"
    /\ state.ioq.drained > 0

\* ---------------------------------------------------------------- C18

\* The calls of the delegate for entry e, with type BFS_ERROR or not.
Deliveries(e, error) ==
    { k \in 1 .. Len(Log) : Log[k].e = e /\ (Log[k].type = "error") = error }

\* bftw_ids() or bftw_eds() is in its first loop, the rounds of PRE visits.
PrePhase == state.ids.on /\ state.ids.visit = "PRE"

\* The first loop of bftw_ids() or bftw_eds() has ended: its last call of
\* bftw_impl() has returned 0 and found the bottom.
PrePhaseDone == PrePhase /\ pc = "round" /\ state.ids.bottom

Delivered(visit) == { e \in Entries : Visits(e, visit) # {} }

\* The entries that are not below a directory the delegate pruned.
Reached == { e \in Entries : ~Excluded(e) }

\* The directories the delegate answered CONTINUE for.
Directories == { e \in Entries : Descended(e) }

\* C19 as stated: a walk that runs to its end delivers the PRE visits of
\* the same entries with BFTW_IDS as with BFTW_BFS (the entries that are
\* not below a pruned directory), and with BFTW_POST_ORDER the POST visits
\* of the same entries with BFTW_IDS as with BFTW_DFS (the directories the
\* delegate let the walk descend into).
C19_AsStated ==
    Completed /\ ret = 0 /\ args.strategy \in {"BFS", "DFS", "IDS"} =>
        /\ Delivered("PRE") = Reached
        /\ "POST_ORDER" \in args.flags => Delivered("POST") = Directories

\* C19: a walk that runs to its end delivers the PRE visits of the same
\* entries with BFTW_IDS (and BFTW_EDS) as with BFTW_BFS and BFTW_DFS.
\* With BFTW_POST_ORDER, BFTW_DFS (like BFTW_BFS and BFTW_EDS) delivers
\* the POST visits of the directories the delegate let the walk descend
\* into; BFTW_IDS delivers these and also a POST visit of every other
\* entry the delegate got and did not prune.
C19_SameVisits ==
    Completed /\ ret = 0 /\ args.strategy \in {"BFS", "DFS", "IDS", "EDS"} =>
        /\ Delivered("PRE") = Reached
        /\ "POST_ORDER" \in args.flags =>
              Delivered("POST") = IF args.strategy = "IDS"
                                  THEN { e \in Reached : ~Pruned(e) }
                                  ELSE Directories

\* bftw() has returned from a walk with BFTW_IDS and BFTW_POST_ORDER that
\* ran to its end: the delegate pruned a directory and got the POST visits
\* of b and of the regular file b/y.
C19_Witness ==
    /\ Completed
    /\ args.strategy = "IDS"
    /\ "POST_ORDER" \in args.flags
    /\ \E e \in Entries : Pruned(e)
    /\ {1, 4} \subseteq Delivered("POST")
    /\ Directories # Delivered("POST")

\* ---------------------------------------------------------------- C20

\* The visits of the first and of the second call of bftw().
FirstRun == SubSeq(Log, 1, (CHOOSE k \in 1 .. Len(Log) : Log[k] = Call) - 1)
SecondRun == SubSeq(Log, (CHOOSE k \in 1 .. Len(Log) : Log[k] = Call) + 1, Len(Log))

\* Both calls of bftw() have returned.
BothReturned == pc = "returned" /\ \E k \in 1 .. Len(Log) : Log[k] = Call

Ordered == args.nthreads = 0 \/ "SORT" \in args.flags

Forwarded == { k \in 1 .. Len(state'.log) : k > Len(state.log) }

\* C21 as stated: in a round of bftw_ids() or bftw_eds() the delegate is
\* called only for entries with min_depth <= depth < max_depth, whatever
\* their type.
C21_AsStated ==
    [][state.ids.on /\ state'.ids.on =>
         \A k \in Forwarded :
             /\ state.ids.min_depth <= state'.log[k].depth
             /\ state'.log[k].depth < state.ids.max_depth]_vars

\* C21: in a round of bftw_ids() or bftw_eds() the delegate is called for
\* an entry of a type other than BFS_ERROR only with min_depth <= depth <
\* max_depth, and for an entry of type BFS_ERROR only with min_depth <=
\* depth + 1 and depth < max_depth: the error of a directory one level
\* above the window, which the round is the first to open, is forwarded.
C21_Window ==
    [][state.ids.on /\ state'.ids.on =>
         \A k \in Forwarded :
             /\ state'.log[k].depth < state.ids.max_depth
             /\ IF state'.log[k].type = "error"
                  THEN state.ids.min_depth <= state'.log[k].depth + 1
                  ELSE state.ids.min_depth <= state'.log[k].depth]_vars

\* In the round of bftw_ids() with min_depth = 1 the delegate got the
\* entries of b (depth 1) and the error of opening a (depth 0).
C21_Witness ==
    /\ state.ids.on
    /\ state.strategy = "IDS"
    /\ state.ids.visit = "PRE"
    /\ state.ids.min_depth = 1
    /\ \E k \in 1 .. Len(Log) : Log[k].type = "error" /\ Log[k].depth = 0
    /\ \E k \in 1 .. Len(Log) : Log[k].type # "error" /\ Log[k].depth = 1

\* ------------------------------------------------------------------- C22

\* The directories for which the delegate answered BFTW_PRUNE in the first
\* n calls of the log.
PrunedBy(n) ==
    { Log[j].e : j \in { i \in 1 .. n : Log[i].answer = "PRUNE" /\ Log[i].type = "dir" } }

\* C22: under bftw_ids() and bftw_eds(), once the delegate has answered
\* BFTW_PRUNE for a directory, the directory is in state->pruned, no
\* record of the walk is below it, and no entry below it is forwarded to
\* the delegate afterwards, in the same round or in a later one.
C22_Pruned ==
    state.ids.on =>
        /\ PrunedBy(Len(Log)) \subseteq state.ids.pruned
        /\ \A e \in Entries :
               state.files[e].live => Above(e) \cap state.ids.pruned = {}
        /\ \A k \in 1 .. Len(Log) : Above(Log[k].e) \cap PrunedBy(k - 1) = {}

\* The delegate pruned the root b in the first round of bftw_ids(), and the
\* round with min_depth = 1 went on to the error of opening the root a.
C22_Witness ==
    /\ state.ids.on
    /\ state.ids.min_depth >= 1
    /\ 1 \in state.ids.pruned
    /\ \E j, k \in 1 .. Len(Log) :
           /\ j < k
           /\ Log[j].e = 1 /\ Log[j].answer = "PRUNE"
           /\ Log[k].e = 2 /\ Log[k].type = "error"

\* ------------------------------------------------------------------- C23

\* The files with a pinned descriptor.
PinnedFiles == { e \in Entries : state.files[e].pincount > 0 }

\* The files whose descriptor was closed while files below them are alive:
\* bftw_unwrapdir() keeps the descriptor of such a file, so it was closed by
\* bftw_cache_pop() or lost to a failed bftw_cache_reserve().
EvictedFiles ==
    { e \in Entries : /\ state.files[e].live /\ ~state.files[e].fd
                      /\ state.files[e].refcount > 1 }

\* C23: the assertions pincount == 0 of bftw_file_close() and bftw_close()
\* hold on every call, and a file with pincount > 0 has its descriptor open
\* and is not on the LRU list, from which alone bftw_cache_pop() takes the
\* file it closes.
C23_Pinned ==
    /\ state.fault \notin {"file_close: pinned", "close: pinned"}
    /\ \A e \in PinnedFiles : state.files[e].fd /\ ~InSeq(state.cache.lru, e)

\* A descriptor is pinned while the descriptor of another directory has been
\* evicted and bftw_gc() has closed and freed the file of a third entry.
C23_Witness ==
    /\ PinnedFiles # {}
    /\ EvictedFiles # {}
    /\ \E k \in 1 .. Len(Log) :
           FS[Log[k].e].kind = "dir" /\ ~state.files[Log[k].e].live

\* ------------------------------------------------------------------- C24

\* The files with an opendir() or a stat() in the ioq, executed or not.
InFlight ==
    LET reqs == state.ioq.pending \o state.ioq.done
    IN { reqs[i].file : i \in { j \in DOMAIN reqs : reqs[j].op \in {"opendir", "stat"} } }

\* The files with ioqueued set.
IoQueued == { e \in Entries : state.files[e].ioqueued }

\* C24: the files with ioqueued set are the files with a request in the
\* ioq.  None of them is the current file, on which alone bftw_visit()
\* invokes the callback, or has been freed, and none is detached a second
\* time: the assertions of bftw_queue_detach() and bftw_queue_attach() on
\* ioqueued hold.
C24_InFlight ==
    /\ state.fault \notin {"detach: ioqueued", "attach: not ioqueued", "attach: ioqueued"}
    /\ IoQueued = InFlight
    /\ \A e \in InFlight : state.files[e].live /\ state.file # e

\* bftw_pop() has made a file the current file while the request for
\* another file is in the ioq.
C24_Witness ==
    /\ state.file # NULL
    /\ state.files[state.file].live
    /\ IoQueued # {}
    /\ state.fault = "none"

\* ------------------------------------------------------------------- C25

\* The files of both sequences are in the same order in both.
SameOrder(old, new) ==
    \A i, j \in DOMAIN old :
        i < j /\ InSeq(new, old[i]) /\ InSeq(new, old[j])
            => IndexOf(new, old[i]) < IndexOf(new, old[j])

\* The files that left the sequence old were at its head.
HeadLeft(old, new) ==
    \A i, j \in DOMAIN old : i < j /\ ~InSeq(new, old[j]) => ~InSeq(new, old[i])

\* C25: in a queue with BFTW_QORDER the ready list, to which the files are
\* added together with the waiting list by bftw_queue_push() and
\* bftw_queue_flush(), keeps the order of its files: a step takes files
\* from its head only, the files still waiting are on it in the same order,
\* and the files detached for the ioq keep their place on it, before and
\* after the response.
C25_Order ==
    [][\A qn \in {"fileq", "dirq"} :
          "QORDER" \in state[qn].flags /\ "QORDER" \in state'[qn].flags =>
              /\ SameOrder(state[qn].ready, state'[qn].ready)
              /\ HeadLeft(state[qn].ready, state'[qn].ready)
              /\ SameOrder(state'[qn].waiting, state'[qn].ready)
              /\ \A i \in DOMAIN state'[qn].waiting :
                     InSeq(state'[qn].ready, state'[qn].waiting[i])
              /\ \A r \in DOMAIN state'.ioq.pending :
                     state'.ioq.pending[r].op = (IF qn = "dirq" THEN "opendir" ELSE "stat")
                         => InSeq(state'[qn].ready, state'.ioq.pending[r].file)]_vars

\* In a queue with BFTW_QORDER a file detached for the ioq is on the ready
\* list behind another file, while the walk has popped a file already.
C25_Witness ==
    \E qn \in {"fileq", "dirq"} :
        /\ "QORDER" \in state[qn].flags
        /\ state.file # NULL
        /\ \E i \in 2 .. Len(state[qn].ready) : state.files[state[qn].ready[i]].ioqueued

\* ------------------------------------------------------ the cache alone

\* The most pins a file gets.
MaxPins == 2

\* The files of the tree, allocated and without descriptors.
AllFiles ==
    [e \in Entries |-> [NoFile EXCEPT !.live = TRUE, !.parent = FS[e].parent,
                                      !.refcount = 1, !.depth = Cardinality(Above(e)),
                                      !.namelen = Len(Names[e]),
                                      !.nameoff = Len(PathOf(e)) - Len(Names[e])]]

\* The operations on struct bftw_cache in any order, each called as its
\* assertions require, with the files of the tree and an ioq that executes
\* the close() calls of bftw_close().
InitCache ==
    /\ args \in [strategy : {"BFS"}, flags : {{}}, nthreads : 0 .. 1,
                  nopenfd : 2 .. MaxOpenFd, d_type : {TRUE}, use_unwrapdir : {TRUE},
                  callback : {"valid"}]
    /\ state = [StateInit(args) EXCEPT !.files = AllFiles]
    /\ pc = "cache"
    /\ ipath = 0
    /\ ret = 0

\* bftw_file_openat() without a base: bftw_cache_reserve(), openat() and
\* bftw_cache_add().
CacheOpens ==
    /\ pc = "cache"
    /\ \E e \in Entries :
          /\ ~state.files[e].fd
          /\ LET Reserved(r) ==
                     IF r.rc # 0 THEN r
                     ELSE CacheAdd([r EXCEPT !.files[e].fd = TRUE], e)
             IN state' = Reserved(CacheReserve(state))
    /\ UNCHANGED <<args, pc, ipath, ret>>

\* bftw_cache_reserve() for a descriptor that the caller opens later.
CacheReserves ==
    /\ pc = "cache"
    /\ state' = CacheReserve(state)
    /\ UNCHANGED <<args, pc, ipath, ret>>

\* bftw_cache_pin()
CachePins ==
    /\ pc = "cache"
    /\ \E e \in Entries :
          /\ state.files[e].fd
          /\ state.files[e].pincount < MaxPins
          /\ state' = CachePin(state, e)
    /\ UNCHANGED <<args, pc, ipath, ret>>

\* The pins of file e that requests in the ioq hold, to be dropped by
\* bftw_ioq_pop().
RequestPins(e) ==
    LET reqs == state.ioq.pending \o state.ioq.done
    IN Cardinality({ i \in DOMAIN reqs : /\ reqs[i].op = "stat"
                                          /\ FS[reqs[i].file].parent = e })

\* bftw_cache_unpin() of a pin of the caller.
CacheUnpins ==
    /\ pc = "cache"
    /\ \E e \in Entries :
          /\ state.files[e].pincount > RequestPins(e)
          /\ state' = CacheUnpin(state, e)
    /\ UNCHANGED <<args, pc, ipath, ret>>

\* bftw_file_close() and bftw_close() of a file that is not pinned.
CacheCloses ==
    /\ pc = "cache"
    /\ \E e \in Entries :
          /\ state.files[e].fd
          /\ state.files[e].pincount = 0
          /\ state' \in {FileClose(state, e), Close(state, e)}
    /\ UNCHANGED <<args, pc, ipath, ret>>

\* bftw_cache_pop()
CacheEvicts ==
    /\ pc = "cache"
    /\ state' = CachePop(state)
    /\ UNCHANGED <<args, pc, ipath, ret>>

\* The files bftw_ioq_stat() is called for.
StatEntries == {4, 5}

\* bftw_ioq_stats() for one file: bftw_ioq_stat(), which pins the parent,
\* and the asynchronous bftw_queue_detach() of the file.
CacheStats ==
    /\ pc = "cache"
    /\ \E e \in StatEntries :
          /\ ~state.files[e].ioqueued
          /\ ~InSeq(state.fileq.ready, e)
          /\ state.files[FS[e].parent].pincount < MaxPins
          /\ LET Submitted(r) ==
                     IF r.rc # 0 THEN r
                     ELSE QueueDetach(QueuePush(r, "fileq", e), "fileq", e, TRUE)
             IN state' = Submitted(IoqStat(state, e))
    /\ UNCHANGED <<args, pc, ipath, ret>>

NextCache ==
    \/ CacheOpens
    \/ CacheReserves
    \/ CachePins
    \/ CacheUnpins
    \/ CacheCloses
    \/ CacheEvicts
    \/ CacheStats
    \/ IoqWorker

SpecCache == InitCache /\ [][NextCache]_vars

\* ------------------------------------------------------------------- C26

\* The positions of the root files on the LRU list.
LruRoots == { i \in DOMAIN state.cache.lru : state.files[state.cache.lru[i]].depth = 0 }

\* C26: on the LRU list the files of depth 0 come before all the others,
\* and cache->target is the last of them, or NULL when there is none; so
\* the tail of the list, which bftw_cache_pop() closes, is a root only when
\* every other file with a descriptor is pinned.
C26_RootsFirst ==
    /\ \A i \in LruRoots : \A j \in DOMAIN state.cache.lru : j < i => j \in LruRoots
    /\ state.cache.target = IF LruRoots = {} THEN NULL
                            ELSE state.cache.lru[Cardinality(LruRoots)]
    /\ Len(state.cache.lru) \in LruRoots =>
           \A e \in Entries : state.files[e].depth > 0 /\ state.files[e].fd
                                   => state.files[e].pincount > 0

\* Two roots and another file are on the LRU list, the root added last
\* being cache->target.
C26_Witness ==
    /\ Cardinality(LruRoots) = 2
    /\ Len(state.cache.lru) = 3
    /\ state.cache.target = state.cache.lru[2]
    /\ state.cache.capacity = 0

\* ------------------------------------------------------------------- C27

\* The requests in the ioq whose response frees a slot of the cache.
CloseRequests ==
    LET reqs == state.ioq.pending \o state.ioq.done
    IN { i \in DOMAIN reqs : reqs[i].op \in {"close", "closedir"} }

\* The files whose descriptor the step closes.
Closed == { e \in Entries : state.files[e].fd /\ ~state'.files[e].fd }

\* C27: bftw_cache_reserve() returns 0 only with capacity > 0.  With
\* capacity > 0 at the call it changes nothing.  With capacity 0 it pops
\* responses of the ioq; when one of them frees a slot it closes no file,
\* and it closes a file, the tail of the LRU list, only after the ioq has
\* no response left.  It fails, with EMFILE, exactly when capacity is 0,
\* no response frees a slot and the LRU list is empty once the responses
\* are popped.
C27_Reserve ==
    [][pc = "cache" /\ state' = CacheReserve(state) =>
         /\ state'.rc = 0 => state'.cache.capacity > 0
         /\ state.cache.capacity > 0 =>
                /\ state'.rc = 0
                /\ state'.cache = state.cache /\ state'.ioq = state.ioq
                /\ state'.files = state.files
         /\ state.cache.capacity = 0 /\ CloseRequests # {} =>
                state'.rc = 0 /\ Closed = {}
         /\ Closed # {} =>
                /\ state.cache.capacity = 0 /\ CloseRequests = {}
                /\ state'.ioq.pending = <<>> /\ state'.ioq.done = <<>>
                /\ Cardinality(Closed) = 1 /\ state'.rc = 0
                /\ \A e \in Closed : state'.files[e].pincount = 0
         /\ state'.rc # 0 <=>
                /\ state.cache.capacity = 0 /\ CloseRequests = {}
                /\ Closed = {} /\ state'.cache.lru = <<>>
         /\ state'.rc # 0 => state'.errno = "EMFILE" /\ state'.cache.capacity = 0]_vars

\* bftw_cache_reserve() has failed: every descriptor of the cache is
\* pinned and the ioq has no request.
C27_Witness ==
    /\ pc = "cache"
    /\ state.rc = -1 /\ state.errno = "EMFILE"
    /\ state.cache.capacity = 0
    /\ state.cache.lru = <<>>
    /\ Cardinality(PinnedFiles) = args.nopenfd
    /\ state.ioq.open

\* ------------------------------------------------------------------- C28

\* The files with an opendir() in the ioq.
Opening ==
    LET reqs == state.ioq.pending \o state.ioq.done
    IN { reqs[i].file : i \in { j \in DOMAIN reqs : reqs[j].op = "opendir" } }

\* C28: the files on the LRU list are the files with a descriptor and
\* pincount 0, each of them listed once.  A file with a directory stream
\* has a descriptor, and it is the stream's: the stream was opened from
\* the file's descriptor by bftw_file_opendir(), or it comes from the ioq
\* for a file that has no descriptor until bftw_file_set_dir() gives it
\* the stream's.
C28_Listed ==
    /\ \A e \in Entries :
           InSeq(state.cache.lru, e) <=>
               state.files[e].fd /\ state.files[e].pincount = 0
    /\ \A i, j \in DOMAIN state.cache.lru :
           state.cache.lru[i] = state.cache.lru[j] => i = j
    /\ \A e \in Entries : state.files[e].dir => state.files[e].fd
    /\ \A e \in Opening : ~state.files[e].fd /\ ~state.files[e].dir
    /\ state.fault # "set_dir: has a dir"

\* On a walk with an ioq, a file with a directory stream is on the LRU
\* list while another file is pinned and off the list.
C28_Witness ==
    /\ state.nthreads > 0
    /\ \E e, f \in Entries :
           /\ state.files[e].dir /\ InSeq(state.cache.lru, e)
           /\ state.files[f].pincount > 0 /\ ~InSeq(state.cache.lru, f)

\* ------------------------------------------------------------------- C29

\* The live files whose parent is file e.
LiveChildren(e) ==
    { c \in Entries : state.files[c].live /\ state.files[c].parent = e }

\* File e has not been handed to bftw_gc() yet: it is on a queue, with the
\* ioq, or the current file.
Held(e) ==
    \/ state.file = e
    \/ state.files[e].ioqueued
    \/ \E qn \in {"fileq", "dirq"} :
           InSeq(state[qn].buffer \o state[qn].waiting \o state[qn].ready, e)

\* C29: a live file has refcount >= 1: one reference for each live file
\* whose parent it is, and one of its own until bftw_gc() drops it.  The
\* parent of a live file is live, and bftw_file_free() is called with
\* refcount 0 only.
C29_Refcount ==
    /\ \A e \in Entries : state.files[e].live =>
           /\ state.files[e].refcount >= 1
           /\ state.files[e].refcount =
                  Cardinality(LiveChildren(e)) + (IF Held(e) THEN 1 ELSE 0)
           /\ state.files[e].parent # NULL => state.files[state.files[e].parent].live
    /\ state.fault # "file_free: refcount"

\* The directory b has been read and handed to bftw_gc(), and is kept by
\* the references of two of its entries; the file of a third was freed.
C29_Witness ==
    /\ state.files[1].live /\ ~Held(1)
    /\ state.files[1].refcount = 2
    /\ \E k \in 1 .. Len(Log) : FS[Log[k].e].parent = 1 /\ ~state.files[Log[k].e].live

\* ------------------------------------------------------ a queue alone

\* The files that are pushed.
QueueEntries == {3, 4, 5, 6}

\* The largest distance from 0 that queue->imbalance is taken to.
MaxImbalance == 2

\* The operations on the file queue in any order, each called as its
\* assertions require, with the flags that bftw_state_init() gives it.
InitQueue ==
    /\ args \in [strategy : Strategies, flags : {{}, {"SORT"}, {"BUFFER"}},
                  nthreads : 0 .. 1, nopenfd : {MaxOpenFd}, d_type : {TRUE},
                  use_unwrapdir : {TRUE}, callback : {"valid"}]
    /\ state = [StateInit(args) EXCEPT !.files = AllFiles]
    /\ pc = "queue"
    /\ ipath = 0
    /\ ret = 0

\* bftw_queue_push() of a file that is not on the queue.
QueuePushes ==
    /\ pc = "queue"
    /\ \E e \in QueueEntries :
          /\ ~InSeq(state.fileq.buffer \o state.fileq.waiting \o state.fileq.ready, e)
          /\ ~state.files[e].ioqueued
          /\ state' = QueuePush(state, "fileq", e)
    /\ UNCHANGED <<args, pc, ipath, ret>>

\* bftw_queue_flush()
QueueFlushes ==
    /\ pc = "queue"
    /\ state' = QueueFlush(state, "fileq")
    /\ UNCHANGED <<args, pc, ipath, ret>>

\* bftw_queue_detach(queue, bftw_queue_waiting(queue), true), on a walk with
\* an ioq.
QueueDetaches ==
    /\ pc = "queue"
    /\ state.nthreads > 0
    /\ QueueWaiting(state.fileq) # NULL
    /\ state.fileq.imbalance > -MaxImbalance
    /\ state' = QueueDetach(state, "fileq", QueueWaiting(state.fileq), TRUE)
    /\ UNCHANGED <<args, pc, ipath, ret>>

\* bftw_queue_attach(queue, file, true) for a file in service, in any order.
QueueAttaches ==
    /\ pc = "queue"
    /\ \E e \in QueueEntries :
          /\ state.files[e].ioqueued
          /\ state' = QueueAttach(state, "fileq", e, TRUE)
    /\ UNCHANGED <<args, pc, ipath, ret>>

\* bftw_queue_skip(queue, bftw_queue_waiting(queue))
QueueSkips ==
    /\ pc = "queue"
    /\ QueueWaiting(state.fileq) # NULL
    /\ state' = QueueSkip(state, "fileq", QueueWaiting(state.fileq))
    /\ UNCHANGED <<args, pc, ipath, ret>>

\* bftw_queue_rebalance(queue, false): the main thread has served a file.
QueueServes ==
    /\ pc = "queue"
    /\ state.fileq.imbalance < MaxImbalance
    /\ state' = QueueRebalance(state, "fileq", FALSE)
    /\ UNCHANGED <<args, pc, ipath, ret>>

\* bftw_queue_pop(), called with an empty buffer and, as bftw_pop() waits
\* for the file it pops, no file in service at the head of the ready list.
QueuePops ==
    /\ pc = "queue"
    /\ state.fileq.buffer = <<>>
    /\ QueueReady(state.fileq) # NULL => ~state.files[QueueReady(state.fileq)].ioqueued
    /\ state' = QueuePop(state, "fileq")
    /\ UNCHANGED <<args, pc, ipath, ret>>

NextQueue ==
    \/ QueuePushes
    \/ QueueFlushes
    \/ QueueDetaches
    \/ QueueAttaches
    \/ QueueSkips
    \/ QueueServes
    \/ QueuePops

SpecQueue == InitQueue /\ [][NextQueue]_vars

\* ------------------------------------------------------------------- C30

\* The sequence in reverse.
Reversed(seq) == [i \in 1 .. Len(seq) |-> seq[Len(seq) + 1 - i]]

\* The step is a bftw_queue_flush() of a buffer that holds files.
Flushing ==
    /\ pc = "queue"
    /\ state.fileq.buffer # <<>>
    /\ state' = QueueFlush(state, "fileq")

\* C30 as stated: with BFTW_QLIFO the flushed files are on the waiting
\* list in the reverse of the order of their pushes.
C30_AsStated ==
    [][Flushing /\ "QLIFO" \in state.fileq.flags =>
         SubSeq(state'.fileq.waiting, 1, Len(state.fileq.buffer))
             = Reversed(state.fileq.buffer)]_vars

\* C30: bftw_queue_flush() leaves the buffer empty and moves its files to
\* the waiting list, in the order of their pushes: in front of the files
\* that were waiting with BFTW_QLIFO, behind them without.  With
\* BFTW_QORDER the same files go to the same end of the ready list in the
\* same order; without it the ready list is left alone.
C30_Flush ==
    [][Flushing =>
         /\ state'.fileq.buffer = <<>>
         /\ state'.fileq.waiting =
                IF "QLIFO" \in state.fileq.flags
                  THEN state.fileq.buffer \o state.fileq.waiting
                  ELSE state.fileq.waiting \o state.fileq.buffer
         /\ state'.fileq.ready =
                IF "QORDER" \notin state.fileq.flags THEN state.fileq.ready
                ELSE IF "QLIFO" \in state.fileq.flags
                  THEN state.fileq.buffer \o state.fileq.ready
                  ELSE state.fileq.ready \o state.fileq.buffer
         /\ "QORDER" \in state.fileq.flags =>
                SameOrder(state'.fileq.waiting, state'.fileq.ready)
         /\ state'.fileq.size = state.fileq.size]_vars

\* A BFTW_QLIFO queue after the flush of two files, pushed as 3 and then
\* 4, in front of a file that was waiting.
C30_Witness ==
    /\ pc = "queue"
    /\ "QLIFO" \in state.fileq.flags
    /\ state.fileq.buffer = <<>>
    /\ Len(state.fileq.waiting) = 3
    /\ SubSeq(state.fileq.waiting, 1, 2) = <<3, 4>>

\* ------------------------------------------------------------------- C31

\* The step is a bftw_queue_push().
Pushing == \E e \in QueueEntries : state' = QueuePush(state, "fileq", e)

\* The step is a bftw_queue_detach() for the ioq.
Detaching ==
    /\ QueueWaiting(state.fileq) # NULL
    /\ state' = QueueDetach(state, "fileq", QueueWaiting(state.fileq), TRUE)

\* The step is a bftw_queue_skip().
Skipping ==
    /\ QueueWaiting(state.fileq) # NULL
    /\ state' = QueueSkip(state, "fileq", QueueWaiting(state.fileq))

\* The step is the bftw_queue_rebalance() for a file served by the main
\* thread.
Serving == state' = QueueRebalance(state, "fileq", FALSE)

C32_Balanced ==
    \A qn \in {"fileq", "dirq"} :
        "QBALANCE" \in state[qn].flags => state[qn].imbalance >= -1

\* A directory is with the ioq, queue->imbalance is -1 and another
\* directory is left waiting.
C32_Witness ==
    /\ "QBALANCE" \in state.dirq.flags
    /\ state.dirq.imbalance = -1
    /\ state.dirq.ioqueued = 1
    /\ state.dirq.waiting # <<>>

\* ------------------------------------------------------------------- C33

\* The files bftw_queue_pop() can return from queue q, once bftw_pop() has
\* waited for the ioq: the head of the ready list; with no file ready, the
\* head of the waiting list or, when the ioq got its response, a file
\* that was in service.
Poppable(q) ==
    IF q.ready # <<>> THEN {Head(q.ready)}
    ELSE IF q.ioqueued = 0 THEN {SeqHead(q.waiting)}
    ELSE {SeqHead(q.waiting)} \cup IoQueued

\* The step pops a directory, which it leaves as the current file.
PoppedDir == pc = "loop" /\ pc' = "read"

\* The step pops a file and calls back on it: its visit is the first that
\* the step adds to the log.
PoppedFile == pc = "loop" /\ pc' # "read" /\ Len(state'.log) > Len(state.log)

\* C33: the assertion of bftw_queue_pop() on the buffer never fails, in
\* the loop of bftw_impl() or in bftw_drain(), and the file popped is the
\* head of the ready list when there is one, else the head of the waiting
\* list unless a response of the ioq made a file ready first.
C33_Pop ==
    [][/\ state'.fault # "pop: buffer not empty"
       /\ PoppedDir => state'.file \in Poppable(state.dirq)
       /\ PoppedFile =>
              state'.log[Len(state.log) + 1].e \in Poppable(state.fileq)]_vars

\* A walk by bftw_ids() was stopped by the callback while reading a
\* directory, bftw_state_destroy() has drained the queues and bftw() has
\* returned.
C33_Witness ==
    /\ pc = "returned"
    /\ state.strategy = "IDS"
    /\ Stopped
    /\ \E k \in 1 .. Len(Log) : Log[k].depth = 1 /\ Log[k].answer = "CONTINUE"
    /\ state.fileq.size = 0 /\ state.dirq.size = 0

\* ----------------------------------------------------------------- C34

\* The record of every entry has the name offset that the path built from
\* scratch gives to its name.
OffsetsFromScratch ==
    \A e \in Entries :
        state.files[e].live =>
            /\ state.files[e].nameoff + state.files[e].namelen = Len(PathOf(e))
            /\ state.files[e].nameoff =
                   IF FS[e].parent = NULL THEN 0
                   ELSE LET dir == PathOf(FS[e].parent)
                        IN Len(dir) + (IF dir[Len(dir)] = "/" THEN 0 ELSE 1)

\* C34: whatever file the path was built for before, the path that
\* bftw_build_path() leaves in the buffer, which every callback is given,
\* is the path of the visited entry built from scratch.
C34_Path ==
    /\ OffsetsFromScratch
    /\ \A k \in 1 .. Len(Log) :
           Log[k].visit # "CALL" => Log[k].path = PathOf(Log[k].e)

\* A walk that buffers the files has returned, in which the path was built
\* for a file after its descendant (b/x after b/x/w), for a file after its
\* parent (b/x/w after b/x), for a file after its sibling and for a root
\* after a file under the other root.
C34_Witness ==
    /\ pc = "returned"
    /\ "BUFFER" \in state.flags
    /\ \E k \in 1 .. Len(Log) - 1 : Log[k].e = 5 /\ Log[k + 1].e = 3
    /\ \E k \in 1 .. Len(Log) - 1 : Log[k].e = 3 /\ Log[k + 1].e = 5
    /\ \E k \in 1 .. Len(Log) - 1 :
           /\ Log[k].e # Log[k + 1].e
           /\ FS[Log[k].e].parent = 1 /\ FS[Log[k + 1].e].parent = 1
    /\ \E k \in 1 .. Len(Log) - 1 :
           FS[Log[k].e].parent # NULL /\ Log[k + 1].e = 2

\* ----------------------------------------------------------------- C35

\* The limits on the length of a path under which files are opened alone.
PathLimits == {1, 2, 4}

\* bftw_file_open() on the files of the tree in any order, between the
\* operations on the cache that close, evict and pin their descriptors,
\* under a limit on the length of a path that the paths of the tree exceed.
InitOpen ==
    /\ args \in [strategy : {"BFS"}, flags : {{}}, nthreads : {0},
                  nopenfd : 2 .. MaxOpenFd, d_type : {TRUE}, use_unwrapdir : {TRUE},
                  callback : {"valid"}]
    /\ \E limit \in PathLimits :
          state = [StateInit(args) EXCEPT !.files = AllFiles, !.path_max = limit]
    /\ pc = "cache"
    /\ ipath = 0
    /\ ret = 0

\* bftw_file_open() of a file without a descriptor.
FileOpens ==
    /\ pc = "cache"
    /\ \E e \in Entries :
          /\ ~state.files[e].fd
          /\ state' = FileOpen(state, e)
    /\ UNCHANGED <<args, pc, ipath, ret>>

NextOpen == FileOpens \/ CachePins \/ CacheUnpins \/ CacheCloses \/ CacheEvicts

SpecOpen == InitOpen /\ [][NextOpen]_vars

\* The files between f and its nearest open ancestor, f included.
Components(f) ==
    LET base == OpenAncestor(state, f)
    IN ({f} \cup Above(f)) \ (IF base = NULL THEN {} ELSE {base} \cup Above(base))

\* openat() takes the name of c and opens it.
Opens(c) == Len(Names[c]) <= state.path_max /\ OpenAt(state, c, 0) = "ok"

\* The path of f relative to its nearest open ancestor is too long.
TooLong(f) == AtPathLen(state, f, OpenAncestor(state, f)) > state.path_max

\* C35: when the path of a file relative to its nearest open ancestor is
\* too long, bftw_file_open() returns the descriptor of the file exactly
\* when the file has one afterwards; it has one only if openat() opens
\* every file between the ancestor and the file by its name, and then its
\* parent still has its descriptor; no file above or below a file that
\* openat() fails to open is left without its parent; the call fails only
\* on a file openat() fails to open or for want of a descriptor (EMFILE);
\* and every pin taken is dropped.
C35_Fallback ==
    [][\A f \in Entries :
          (/\ pc = "cache" /\ ~state.files[f].fd /\ TooLong(f)
           /\ state' = FileOpen(state, f))
          => /\ state'.rc \in {1, -1}
             /\ (state'.rc = 1) <=> state'.files[f].fd
             /\ state'.files[f].fd =>
                    \/ state.files[f].parent = NULL
                    \/ state'.files[state.files[f].parent].fd
             /\ \A c \in Components(f) :
                    state'.files[c].fd =>
                        \A a \in Components(f) \cap ({c} \cup Above(c)) : Opens(a)
             /\ ~state'.files[f].fd =>
                    \/ \E c \in Components(f) : ~Opens(c)
                    \/ state'.errno = "EMFILE"
             /\ \A e \in Entries :
                    state'.files[e].pincount = state.files[e].pincount]_vars

\* The path b/x/w was too long for openat(), and b/x/w got its descriptor
\* after b/ and b/x were opened by their names.
C35_Witness ==
    /\ pc = "cache"
    /\ state.path_max = 2
    /\ state.errno = "ENAMETOOLONG"
    /\ state.rc = 1
    /\ state.files[5].fd /\ state.files[3].fd

\* ----------------------------------------------------------------- C36

\* The requests to open or stat an entry of directory e that were submitted
\* to the ioq and whose responses bftw_ioq_pop() has not taken yet.
InFlightUnder(e) ==
    LET reqs == state.ioq.pending \o state.ioq.done
    IN { i \in DOMAIN reqs : /\ reqs[i].op \in {"opendir", "stat"}
                              /\ state.files[reqs[i].file].parent = e }

\* File e is the directory that is being read.
BeingRead(e) == state.dir /\ state.file = e

\* C36: the pin count of every file is the number of requests in flight
\* for its entries, plus one while it is the directory being read; no
\* unpin finds a file without a pin, no file is closed or freed with a pin,
\* and a slot without a file has no pin.
C36_Pins ==
    /\ state.fault \notin {"unpin: not pinned", "file_close: pinned", "pin: fd < 0"}
    /\ \A e \in Entries :
           /\ state.files[e].pincount =
                  Cardinality(InFlightUnder(e)) + (IF BeingRead(e) THEN 1 ELSE 0)
           /\ ~state.files[e].live => state.files[e].pincount = 0

\* A directory is being read while a request for one of its entries is in
\* flight: it is pinned twice.
C36_Witness ==
    \E e \in Entries :
        /\ BeingRead(e)
        /\ InFlightUnder(e) # {}
        /\ state.files[e].pincount = 2

\* ----------------------------------------------------------------- C37

\* The files with a request op in the ioq whose response has not been taken.
Sent(op) ==
    LET reqs == state.ioq.pending \o state.ioq.done
    IN { reqs[i].file : i \in { j \in DOMAIN reqs : reqs[j].op = op } }

\* The files on the lists of queue q.
Listed(q) ==
    { q.buffer[i] : i \in DOMAIN q.buffer }
      \cup { q.waiting[i] : i \in DOMAIN q.waiting }
      \cup { q.ready[i] : i \in DOMAIN q.ready }

\* The counters of queue q, whose files are sent to the ioq with request op:
\* size counts the files on its lists and in the ioq, ioqueued those of them
\* with ioqueued set, which are those in the ioq.
Counted(q, op) ==
    /\ q.size = Cardinality(Listed(q) \cup Sent(op))
    /\ q.ioqueued = Cardinality({ e \in Listed(q) \cup Sent(op) : state.files[e].ioqueued })
    /\ q.ioqueued = Cardinality(Sent(op))

\* C37: the size of each queue is the number of files pushed to it and not
\* popped, whether buffered, waiting, in the ioq or ready, and its ioqueued
\* counter is the number of them with ioqueued set.
C37_Counters ==
    /\ Counted(state.dirq, "opendir")
    /\ Counted(state.fileq, "stat")

\* Both queues have files in the ioq, and the queue of files has more
\* files than it has in the ioq.
C37_Witness ==
    /\ state.dirq.ioqueued > 0
    /\ state.fileq.ioqueued > 0
    /\ state.fileq.size > state.fileq.ioqueued

\* ----------------------------------------------------------------- C38

\* Queue q has no file and counts none.
Empty(q) ==
    /\ q.buffer = <<>> /\ q.waiting = <<>> /\ q.ready = <<>>
    /\ q.size = 0 /\ q.ioqueued = 0

\* C38: when bftw() has returned, whether the walk was completed, stopped
\* or failed, every file was freed, both queues are empty, no response is
\* left in the ioq, the list of the cache is empty and its target is null:
\* the assertions of bftw_cache_destroy() hold.
C38_Destroyed ==
    pc = "returned" =>
        /\ \A e \in Entries : ~state.files[e].live
        /\ Empty(state.dirq) /\ Empty(state.fileq)
        /\ state.ioq.pending = <<>> /\ state.ioq.done = <<>>
        /\ state.cache.lru = <<>> /\ state.cache.target = NULL
        /\ state.fault \notin {"cache_destroy: list not empty", "cache_destroy: target",
                                "file_free: refcount"}

\* bftw() has returned from a walk that the callback stopped while files
\* were queued and requests were in the ioq.
C38_Witness ==
    /\ pc = "returned"
    /\ Stopped
    /\ state.ioq.drained > 0
    /\ \E k \in 1 .. Len(Log) : Log[k].depth = 1

\* ----------------------------------------------------------------- bfs_exec

\* The number of paths given to bfs_exec() before bfs_exec_finish().
MaxPaths == 3

\* The fixed argument of the command: -exec cmd {} +, with tmpl_argc = 2.
Cmd == -1

\* bfs_exec_arg_size(): sizeof(char *) + strlen(arg) + 1, for path p of
\* p characters.
ExecArgSize(p) == 8 + p + 1

\* What a spawn that the system accepts comes to: the command succeeds,
\* the command fails, or the process cannot be created.
Outcomes == {"ok", "failed", "EAGAIN"}

\* bfs_exec_parse(): the buffer of a BFS_EXEC_MULTI command.  spawned lists
\* the argument lists given to bfs_spawn() with their results and freed
\* the paths given to free(); limit is the size of the arguments above
\* which the system answers E2BIG; nflush counts the calls of
\* bfs_exec_flush() and base those before the current call of bfs_exec()
\* or bfs_exec_finish().
ExecInit(flags, arg_max, limit) ==
    [flags |-> flags, tmpl_argc |-> 2, argc |-> 1,
     argv |-> [i \in 1 .. MaxPaths + 3 |-> IF i = 1 THEN Cmd ELSE NULL],
     arg_size |-> 0, arg_min |-> arg_max, arg_max |-> arg_max, ret |-> 0,
     wd |-> FALSE, limit |-> limit,
     rc |-> 0, errno |-> NoError, est |-> 0, nflush |-> 0, base |-> 0,
     spawned |-> <<>>, freed |-> <<>>, fault |-> "none"]

\* The paths among the arguments argv[tmpl_argc - 1 .. argc - 1].
ExecPaths(x) == [i \in 1 .. x.argc - (x.tmpl_argc - 1) |-> x.argv[i + x.tmpl_argc - 1]]

\* bfs_exec_spawn() of a command with several paths: rc = 0 when the
\* command has succeeded, else rc = -1 and errno.
ExecSpawn(x, outcome) ==
    LET result == IF x.arg_size > x.limit THEN "E2BIG" ELSE outcome
        paths == ExecPaths(x)
        x0 == IF \E i \in DOMAIN paths : InSeq(x.freed, paths[i])
                THEN Fault(x, "spawn: freed argument") ELSE x
    IN [x0 EXCEPT !.spawned = Append(@, [args |-> ExecPaths(x), result |-> result,
                                        flush |-> x.nflush]),
                 !.rc = IF result = "ok" THEN 0 ELSE -1,
                 !.errno = IF result \in {"ok", "failed"} THEN NoError ELSE result]

\* free() of a path.
ExecFree(x, p) ==
    IF InSeq(x.freed, p) THEN Fault(x, "free: freed twice")
    ELSE [x EXCEPT !.freed = Append(@, p)]

\* bfs_exec_args_remain()
ExecArgsRemain(x) == x.argc >= x.tmpl_argc

\* bfs_exec_estimate_max()
ExecEstimateMax(x) == x.arg_min + (x.arg_max - x.arg_min) \div 2

\* bfs_exec_update_min()
ExecUpdateMin(x) ==
    IF x.arg_size > x.arg_min
      THEN [x EXCEPT !.arg_min = IF x.arg_size > x.arg_max THEN x.arg_max ELSE x.arg_size]
      ELSE x

\* bfs_exec_update_max(): the estimate returned is left in est.
ExecUpdateMax(x) ==
    LET x1 == IF x.arg_size <= x.arg_min THEN [x EXCEPT !.arg_min = 0] ELSE x
        size == x.arg_size - x.arg_size \div 16
        x2 == IF size < x1.arg_max
                THEN [x1 EXCEPT !.arg_max = size,
                                !.arg_min = IF @ > size THEN size ELSE @]
                ELSE x1
    IN [x2 EXCEPT !.est = ExecEstimateMax(x2)]

\* The loop of bfs_exec_flush() that takes arguments off the end of the
\* list, each moved one place up, until their size is at most new_max.
RECURSIVE ExecShrink(_, _)
ExecShrink(x, new_max) ==
    IF x.arg_size <= new_max THEN x
    ELSE IF x.argc < 1 THEN Fault(x, "flush: argc underflow")
    ELSE ExecShrink([x EXCEPT !.argv[x.argc + 1] = x.argv[x.argc],
                              !.arg_size = @ - ExecArgSize(x.argv[x.argc]),
                              !.argc = @ - 1],
                    new_max)

\* The loop of bfs_exec_flush() that spawns the command until the system
\* accepts its arguments or none remains.  A round that removes no argument
\* would be repeated for ever: it is a fault.
RECURSIVE ExecTry(_, _)
ExecTry(x, outcome) ==
    IF ~ExecArgsRemain(x) THEN x
    ELSE LET sp == ExecSpawn([x EXCEPT !.argv[x.argc + 1] = NULL], outcome)
             Shrunk(u) == ExecShrink(u, u.est)
             Again(u) == IF u.argc = x.argc
                           THEN Fault(u, "flush: no argument removed")
                           ELSE ExecTry(u, outcome)
         IN IF sp.rc = 0 THEN ExecUpdateMin(sp)
            ELSE IF sp.errno # "E2BIG" THEN sp
            ELSE Again(Shrunk(ExecUpdateMax(sp)))

\* The paths argv[i .. last] are given to free().
RECURSIVE ExecFreeArgs(_, _, _)
ExecFreeArgs(x, i, last) ==
    IF i > last THEN x ELSE ExecFreeArgs(ExecFree(x, x.argv[i]), i + 1, last)

\* The paths argv[i .. last], left unused by a command that ran, are moved
\* to the front of the list.
RECURSIVE ExecKeepArgs(_, _, _)
ExecKeepArgs(x, i, last) ==
    IF i > last THEN x
    ELSE ExecKeepArgs([x EXCEPT !.argv[x.argc + 1] = x.argv[i],
                                !.arg_size = @ + ExecArgSize(x.argv[i]),
                                !.argc = @ + 1],
                      i + 1, last)

\* A bfs_exec_flush() that keeps the unused paths whatever the error.
ExecFlushKeeps(x, outcome) ==
    LET orig_argc == x.argc
        t == ExecTry([x EXCEPT !.rc = 0, !.errno = NoError, !.nflush = @ + 1], outcome)
        new_argc == t.argc
        f == [ExecFreeArgs(t, t.tmpl_argc, new_argc) EXCEPT !.argc = t.tmpl_argc - 1,
                                                            !.arg_size = 0]
    IN IF new_argc < orig_argc THEN ExecKeepArgs(f, new_argc + 2, orig_argc + 1) ELSE f

\* bfs_exec_flush(): rc is its return value and errno the error it leaves.
ExecFlush(x, outcome) ==
    LET orig_argc == x.argc
        t == ExecTry([x EXCEPT !.rc = 0, !.errno = NoError, !.nflush = @ + 1], outcome)
        new_argc == t.argc
        f == [ExecFreeArgs(t, t.tmpl_argc, new_argc) EXCEPT !.argc = t.tmpl_argc - 1,
                                                            !.arg_size = 0]
    IN IF new_argc < orig_argc
         THEN IF t.errno = NoError THEN ExecKeepArgs(f, new_argc + 2, orig_argc + 1)
                                   ELSE ExecFreeArgs(f, new_argc + 2, orig_argc + 1)
         ELSE f

\* while (bfs_exec_args_remain(execbuf)) ret |= bfs_exec_flush(execbuf):
\* the value of ret is left in rc.  The flushes of one call come to
\* outcomes[1], outcomes[2], ...  A loop that is not over after one flush
\* for each path is a fault.
RECURSIVE ExecFlushAll(_, _, _)
ExecFlushAll(x, or, outcomes) ==
    IF ~ExecArgsRemain(x) THEN [x EXCEPT !.rc = or]
    ELSE IF x.nflush - x.base >= MaxPaths THEN Fault(x, "flush: arguments remain")
    ELSE LET f == ExecFlush(x, outcomes[x.nflush - x.base + 1])
         IN ExecFlushAll(f, IF or # 0 \/ f.rc # 0 THEN -1 ELSE 0, outcomes)

\* bfs_exec_would_overflow()
ExecWouldOverflow(x, arg) == x.arg_size + ExecArgSize(arg) > ExecEstimateMax(x)

\* bfs_exec_push()
ExecPush(x, arg) ==
    [x EXCEPT !.argv[x.argc + 1] = arg, !.argc = @ + 1,
              !.arg_size = @ + ExecArgSize(arg)]

\* bfs_exec_multi() for the path arg: changed tells whether the path is in
\* another directory than the paths in the buffer, wd_ok whether
\* bfs_exec_openwd() succeeds.
ExecMulti(x, arg, changed, wd_ok, outcomes) ==
    LET x0 == [x EXCEPT !.base = x.nflush]
        flushed == IF "CHDIR" \in x.flags /\ changed
                     THEN [ExecFlushAll(x0, 0, outcomes) EXCEPT !.wd = FALSE]
                   ELSE IF ExecWouldOverflow(x0, arg)
                     THEN ExecFlush(x0, outcomes[1])
                   ELSE [x0 EXCEPT !.rc = 0]
    IN IF "CHDIR" \in x.flags /\ ~flushed.wd /\ ~wd_ok
         THEN [ExecFree(flushed, arg) EXCEPT !.rc = -1]
         ELSE [ExecPush([flushed EXCEPT !.wd = "CHDIR" \in x.flags], arg) EXCEPT !.rc = flushed.rc]

\* bfs_exec() of a BFS_EXEC_MULTI command: it returns 0.
Exec(x, arg, changed, wd_ok, outcomes) ==
    LET m == ExecMulti(x, arg, changed, wd_ok, outcomes)
    IN [m EXCEPT !.ret = IF m.rc = 0 THEN @ ELSE -1,
                 !.errno = IF m.rc = 0 THEN NoError ELSE @,
                 !.rc = 0]

\* bfs_exec_finish(): rc is the value it returns, execbuf->ret.
ExecFinish(x, outcomes) ==
    LET f == ExecFlushAll([x EXCEPT !.base = x.nflush], x.ret, outcomes)
    IN [f EXCEPT !.ret = f.rc]

\* The estimates of ARG_MAX that bfs_exec_arg_max() computes, and the sizes
\* above which the system answers E2BIG.
ArgMaxes == {24, 40}
Limits == {0, 15, 25, 40}

\* bfs_exec() is called for MaxPaths paths, 1, 2, ..., then
\* bfs_exec_finish().  ipath counts the paths given.
InitExec ==
    /\ args \in [flags : {{}, {"CHDIR"}}, arg_max : ArgMaxes, limit : Limits]
    /\ state = ExecInit(args.flags, args.arg_max, args.limit)
    /\ pc = "exec"
    /\ ipath = 0
    /\ ret = 0

\* bfs_exec() is called for the next path.
ExecPath ==
    /\ pc = "exec"
    /\ ipath < MaxPaths
    /\ \E changed \in BOOLEAN, wd_ok \in BOOLEAN,
          outcomes \in [1 .. MaxPaths + 1 -> Outcomes] :
          state' = Exec(state, ipath + 1, changed, wd_ok, outcomes)
    /\ ipath' = ipath + 1
    /\ UNCHANGED <<args, pc, ret>>

\* bfs_exec_finish() is called.
ExecFinishes ==
    /\ pc = "exec"
    /\ \E outcomes \in [1 .. MaxPaths + 1 -> Outcomes] :
          /\ state' = ExecFinish(state, outcomes)
          /\ ret' = state'.rc
    /\ pc' = "finished"
    /\ UNCHANGED <<args, ipath>>

NextExec == ExecPath \/ ExecFinishes

SpecExec == InitExec /\ [][NextExec]_vars

\* ----------------------------------------------------------------- C39

\* The argument lists given to bfs_spawn(), in order.
Spawned == state.spawned

\* The paths of the i-th argument list.
SpawnedPaths(i) == { Spawned[i].args[k] : k \in DOMAIN Spawned[i].args }

\* C39: a path is given to bfs_spawn() again only after a spawn that failed
\* with E2BIG, so it is given to at most one command that runs, and never
\* after it was freed; a path that was freed is not in the buffer; a spawn
\* that fails with E2BIG is followed, in the same bfs_exec_flush(), by a
\* spawn with fewer paths, so that the loops of bfs_exec_flush(), of
\* bfs_exec() and of bfs_exec_finish() end; and after bfs_exec_finish()
\* only the fixed arguments are left (argc = tmpl_argc - 1).
C39_Exec ==
    /\ state.fault \notin {"flush: no argument removed", "flush: arguments remain",
                            "free: freed twice", "spawn: freed argument",
                            "flush: argc underflow"}
    /\ \A i, j \in DOMAIN Spawned :
           i < j /\ SpawnedPaths(i) \cap SpawnedPaths(j) # {}
             => Spawned[i].result = "E2BIG"
    /\ \A i \in DOMAIN state.freed, k \in DOMAIN ExecPaths(state) :
           state.freed[i] # ExecPaths(state)[k]
    /\ \A i \in DOMAIN Spawned :
           /\ i < Len(Spawned)
           /\ Spawned[i].result = "E2BIG"
           /\ Spawned[i + 1].flush = Spawned[i].flush
           => Len(Spawned[i + 1].args) < Len(Spawned[i].args)
    /\ pc = "finished" => state.argc = state.tmpl_argc - 1 /\ state.arg_size = 0

\* bfs_exec_finish() has returned after a flush in which the command
\* failed with E2BIG, was run with fewer paths and succeeded, and the
\* paths left over were given to a later command: each path was freed.
C39_Witness ==
    /\ pc = "finished"
    /\ Len(state.freed) = MaxPaths
    /\ \E i \in DOMAIN Spawned :
           /\ i + 1 < Len(Spawned)
           /\ Spawned[i].result = "E2BIG"
           /\ Spawned[i + 1].result = "ok" /\ Spawned[i + 1].flush = Spawned[i].flush
           /\ Spawned[i + 2].flush > Spawned[i].flush
           /\ Spawned[i + 2].args # <<>>

\* ----------------------------------------------------------------- C40

\* The end of the name of file f in the path: nameoff + namelen.
NameEnd(f) == state.files[f].nameoff + state.files[f].namelen

\* C40: 'previous' is null or a file that is allocated, and the bytes of
\* the path up to the end of its name are its path: when bftw_gc() frees
\* the file 'previous' refers to, 'previous' moves to the parent, whose
\* path the buffer still starts with.
C40_Previous ==
    state.previous # NULL =>
        /\ state.files[state.previous].live
        /\ Len(state.path) >= NameEnd(state.previous)
        /\ SubSeq(state.path, 1, NameEnd(state.previous)) = PathOf(state.previous)

\* bftw_gc() has freed b/x after the visit of b/x/w, whose path is in the
\* buffer, and 'previous' is b/.
C40_Witness ==
    /\ state.previous = 1
    /\ state.path = PathOf(5)
    /\ ~state.files[3].live

====
